---- MODULE Spec2Model ----
(***************************************************************************)
(* Authorization and audit subsystem of the authenticated MCP server:      *)
(* the permission resolver (hasPermission and its three wrappers), the     *)
(* audit recorder (sanitizeMetadata, logAudit) and the guards              *)
(* (authenticatedTool, authenticatedResource, the generate-fake-user       *)
(* prompt) around the create-user / create-random-user tools and the       *)
(* users / user-details resources.                                         *)
(*                                                                         *)
(* Strings that the code splits and joins (permission names) are           *)
(* sequences of tokens; the token "." is the separator that split(".")     *)
(* cuts at and "*" is the wildcard character.  All other tokens stand for  *)
(* dot-free, star-free pieces of text.                                     *)
(***************************************************************************)
EXTENDS Integers, Sequences, FiniteSets, Bags, TLC

VARIABLES
    phase,              \* main(): "boot" before startup, "serving" after server.connect, "exited" after process.exit
    currentAuthContext, \* the global AuthContext | null
    mcpUsers,           \* the user-record store (prisma.mcpUser), a sequence of rows
    auditLog,           \* the audit store (prisma.auditLog), a sequence of rows in insertion order
    reqs,               \* the guarded invocations made so far, each with its position in the guard
    answer,             \* the last answer of the permission resolver when it is queried on its own
    userTable,          \* the Identity store (prisma.user), a sequence of rows
    sessionTable,       \* the Session store (prisma.session), a sequence of rows; a deleted row leaves a gap
    permissionTable,    \* the Permission store (prisma.permission), a sequence of rows
    userPermissionTable,\* the Permission Grant store (prisma.userPermission), a bag of rows
    vals,               \* the validateToken calls made so far, each with its position
    now,                \* the clock read by new Date() and by the stores' defaults
    input               \* the metadata handed to logAudit when the recorder is exercised on its own

\* The state of the session validator and of the clock.
authVars == <<userTable, sessionTable, permissionTable, userPermissionTable, vals, now, input>>

vars == <<phase, currentAuthContext, mcpUsers, auditLog, reqs, answer, authVars>>

(***************************************************************************)
(* Bounds                                                                  *)
(***************************************************************************)
MaxNameLen == 3     \* longest free-form permission name, in tokens
MaxReqs == 2        \* guarded invocations per run (they interleave at their awaits)
MaxVals == 2        \* validateToken calls per run (they interleave at their awaits)
MaxTime == 2        \* clock ticks per run
MaxDepth == 3       \* nesting of the metadata values given to the recorder
MaxRows == 3        \* audit records written before the log is queried

(***************************************************************************)
(* Strings as token sequences                                              *)
(***************************************************************************)
Dot == "."
Star == "*"

\* Template literal concatenation with a "." between two strings.
Dotted(a, b) == a \o <<Dot>> \o b

RECURSIVE SeqsOfLen(_, _)
SeqsOfLen(S, n) ==
    IF n = 0 THEN {<<>>}
    ELSE {Append(s, x) : s \in SeqsOfLen(S, n - 1), x \in S}

SeqsUpTo(S, n) == UNION {SeqsOfLen(S, k) : k \in 0..n}

\* String.prototype.split("."): the pieces between the separators; "" gives [""].
RECURSIVE split(_)
split(s) ==
    IF \A i \in 1..Len(s) : s[i] # Dot THEN <<s>>
    ELSE LET i == CHOOSE j \in 1..Len(s) :
                      s[j] = Dot /\ \A k \in 1..(j - 1) : s[k] # Dot
         IN  <<SubSeq(s, 1, i - 1)>> \o split(SubSeq(s, i + 1, Len(s)))

\* Array.prototype.join("."): the pieces with a "." between neighbours; [] gives "".
RECURSIVE join(_)
join(parts) ==
    IF Len(parts) = 0 THEN <<>>
    ELSE IF Len(parts) = 1 THEN parts[1]
    ELSE Dotted(parts[1], join(Tail(parts)))

\* parts.slice(0, i)
slice(parts, i) == SubSeq(parts, 1, i)

(***************************************************************************)
(* Permission resolver                                                     *)
(***************************************************************************)
\* authContext.permissions.some(p => p.name === n)
some(authContext, n) == n \in authContext.permissions

\* A bug a wildcard matcher could have: any granted wildcard matches.
hasPermission_AnyWildcard(authContext, permissionName) ==
    \/ some(authContext, permissionName)
    \/ \E g \in authContext.permissions :
          Len(g) >= 2 /\ SubSeq(g, Len(g) - 1, Len(g)) = <<Dot, Star>>

\* A bug an exact matcher could have: a grant matches every name under its first segment.
hasPermission_FirstSegment(authContext, permissionName) ==
    \E g \in authContext.permissions : split(g)[1] = split(permissionName)[1]

\* A matcher that answers only for granted sets of a single name.
hasPermission_SoleGrant(authContext, permissionName) ==
    LET hasExact == some(authContext, permissionName)
        parts == split(permissionName)
        wildcardName(i) == join(slice(parts, i)) \o <<Dot, Star>>
    IN  /\ Cardinality(authContext.permissions) = 1
        /\ \/ hasExact
           \/ \E i \in 1..Len(parts) : some(authContext, wildcardName(i))

\* A matcher that appends ".*" to strictly shorter prefixes only.
hasPermission_ShorterPrefixes(authContext, permissionName) ==
    LET hasExact == some(authContext, permissionName)
        parts == split(permissionName)
        wildcardName(i) == join(slice(parts, i)) \o <<Dot, Star>>
    IN  \/ hasExact
        \/ \E i \in 1..(Len(parts) - 1) : some(authContext, wildcardName(i))

hasPermission(authContext, permissionName) ==
    LET hasExact == some(authContext, permissionName)
        parts == split(permissionName)
        wildcardName(i) == join(slice(parts, i)) \o <<Dot, Star>>
    IN  \/ hasExact
        \/ \E i \in 1..Len(parts) : some(authContext, wildcardName(i))

canExecuteTool(authContext, toolName) ==
    hasPermission(authContext, Dotted(<<"tools">>, toolName))

\* A bug: a read grant filed under tools is accepted for a resource.
canAccessResource_AnyNamespace(authContext, resourceName) ==
    \/ hasPermission(authContext, Dotted(Dotted(<<"resources">>, resourceName), <<"read">>))
    \/ hasPermission(authContext, Dotted(<<"resources">>, resourceName))
    \/ hasPermission(authContext, Dotted(Dotted(<<"tools">>, resourceName), <<"read">>))

\* A bug: the back-compatible name without ".read" is no longer tried.
canAccessResource_ReadOnly(authContext, resourceName) ==
    hasPermission(authContext, Dotted(Dotted(<<"resources">>, resourceName), <<"read">>))

canAccessResource(authContext, resourceName) ==
    LET permissionWithRead == Dotted(Dotted(<<"resources">>, resourceName), <<"read">>)
        permissionWithoutRead == Dotted(<<"resources">>, resourceName)
    IN  \/ hasPermission(authContext, permissionWithRead)
        \/ hasPermission(authContext, permissionWithoutRead)

canUsePrompt(authContext, promptName) ==
    hasPermission(authContext, Dotted(<<"prompts">>, promptName))

(***************************************************************************)
(* JavaScript values that reach the audit recorder                         *)
(***************************************************************************)
Undef == [t |-> "undefined", v |-> ""]
Null == [t |-> "null", v |-> ""]
Fn == [t |-> "function", v |-> ""]
Prim(s) == [t |-> "primitive", v |-> s]
Arr(items) == [t |-> "array", v |-> items]
Obj(fields) == [t |-> "object", v |-> fields]

\* A sanitizer that strips the functions of the outermost array or object only.
sanitizeMetadata_Shallow(obj) ==
    IF obj = Null \/ obj = Undef THEN obj
    ELSE IF obj.t = "function" THEN Undef
    ELSE IF obj.t = "primitive" THEN obj
    ELSE IF obj.t = "array" THEN
        Arr(SelectSeq(obj.v, LAMBDA item : item # Undef /\ item.t # "function"))
    ELSE
        LET keep == {key \in DOMAIN obj.v : obj.v[key] # Undef /\ obj.v[key].t # "function"}
        IN  Obj([key \in keep |-> obj.v[key]])

\* Functions become undefined; arrays drop their undefined items after the
\* map; objects drop the keys whose sanitized value is undefined.
RECURSIVE sanitizeMetadata(_)
sanitizeMetadata(obj) ==
    IF obj = Null \/ obj = Undef THEN obj
    ELSE IF obj.t = "function" THEN Undef
    ELSE IF obj.t = "primitive" THEN obj
    ELSE IF obj.t = "array" THEN
        LET mapped == [i \in 1..Len(obj.v) |-> sanitizeMetadata(obj.v[i])]
        IN  Arr(SelectSeq(mapped, LAMBDA item : item # Undef))
    ELSE
        LET keep == {key \in DOMAIN obj.v :
                        LET value == sanitizeMetadata(obj.v[key])
                        IN  value # Undef /\ value.t # "function"}
        IN  Obj([key \in keep |-> sanitizeMetadata(obj.v[key])])

\* JavaScript truthiness, as used by `options.metadata ? ... : undefined`
truthy(x) ==
    /\ x # Undef
    /\ x # Null
    /\ ~(x.t = "primitive" /\ x.v = "")

\* The options argument of logAudit; an omitted option is undefined.
Options(resourceId, errorMessage, metadata) ==
    [resourceId |-> resourceId, errorMessage |-> errorMessage, metadata |-> metadata]

\* The row prisma.auditLog.create is given by logAudit.
auditRow(authContext, action, success, options) ==
    [userId |-> authContext.user,
     action |-> action,
     success |-> success,
     resourceId |-> options.resourceId,
     errorMessage |-> options.errorMessage,
     timestamp |-> now,     \* not written by logAudit: the store's default on insert
     metadata |-> IF truthy(options.metadata)
                  THEN sanitizeMetadata(options.metadata)
                  ELSE Undef]

\* A bug: the catch block of logAudit rethrows, so a store failure reaches the caller.
logAudit_Rethrows(authContext, action, success, options, storeOk) ==
    IF storeOk
    THEN [log |-> Append(auditLog, auditRow(authContext, action, success, options)),
          raised |-> FALSE]
    ELSE [log |-> auditLog, raised |-> TRUE]

\* A recorder that keeps the latest record only.
logAudit_Overwrites(authContext, action, success, options, storeOk) ==
    IF storeOk
    THEN [log |-> <<auditRow(authContext, action, success, options)>>, raised |-> FALSE]
    ELSE [log |-> auditLog, raised |-> FALSE]

\* logAudit: the audit store after the call and whether the call raised.
\* storeOk is whether prisma.auditLog.create succeeded; its failure is caught.
logAudit(authContext, action, success, options, storeOk) ==
    IF storeOk
    THEN [log |-> Append(auditLog, auditRow(authContext, action, success, options)),
          raised |-> FALSE]
    ELSE [log |-> auditLog, raised |-> FALSE]

(***************************************************************************)
(* The user-record store                                                   *)
(***************************************************************************)
Emails == {"ann@x", "bob@x"}

\* Results and errors have one shape: a payload's kind, its text and the value
\* the text interpolates, or an error's code and message.
Val(kind, detail, arg) == [kind |-> kind, detail |-> detail, arg |-> arg]
NoVal == Val("none", "", "")
Err(code, message) == Val(code, message, "")

\* prisma.mcpUser.create: a new row, or P2002 on a duplicate email, or
\* another storage error when the database cannot be reached (dbOk = FALSE).
mcpUserCreate(email, dbOk) ==
    IF ~dbOk THEN [ok |-> FALSE, err |-> Err("P1001", "database unreachable"), rows |-> mcpUsers]
    ELSE IF \E i \in 1..Len(mcpUsers) : mcpUsers[i].email = email
    THEN [ok |-> FALSE, err |-> Err("P2002", "Unique constraint failed on the fields: (email)"),
          rows |-> mcpUsers]
    ELSE [ok |-> TRUE, err |-> NoVal,
          rows |-> Append(mcpUsers, [id |-> Len(mcpUsers) + 1, email |-> email])]

(***************************************************************************)
(* Guarded invocations                                                     *)
(***************************************************************************)
NoAuth == [user |-> "", permissions |-> {}, present |-> FALSE]
AuthContext(user, permissions) == [user |-> user, permissions |-> permissions, present |-> TRUE]

UserIds == {"u1", "u2"}

createUser == <<"create-user">>
createRandomUser == <<"create-random-user">>
users == <<"users">>
userDetails == <<"user-details">>
generateFakeUser == <<"generate-fake-user">>

\* grantDefaultPermissions' list
defaultPermissions ==
    {Dotted(<<"tools">>, createRandomUser), Dotted(<<"tools">>, createUser),
     Dotted(<<"resources">>, users), Dotted(<<"resources">>, userDetails),
     Dotted(<<"prompts">>, generateFakeUser)}

\* The permission sets an identity may hold in the store when the server starts.
StartupPermissions ==
    {{}, defaultPermissions,
     {Dotted(<<"tools">>, createUser)},
     {Dotted(<<"tools">>, <<Star>>)},
     {Dotted(Dotted(<<"resources">>, users), <<"read">>)},
     {Dotted(<<"resources">>, <<Star>>), Dotted(<<"prompts">>, <<Star>>)}}

\* What validateToken may return at startup: an identity with its grants.
StartupContexts ==
    {AuthContext("u1", ps) : ps \in StartupPermissions}
        \cup {AuthContext("u2", defaultPermissions)}

\* The arguments the dispatch layer hands to each wrapped handler.
ParamsOf(cap, name) ==
    IF cap = "tool" /\ name = createUser
    THEN {Obj([email |-> Prim(e)]) : e \in Emails}
    ELSE IF cap = "tool"
    THEN {Obj([requestId |-> Prim("1"), sendNotification |-> Fn])}
    ELSE IF cap = "resource" /\ name = users
    THEN {Prim("users://all")}
    ELSE IF cap = "resource"
    THEN {Prim("users://1/profile"), Prim("users://7/profile")}
    ELSE {Obj([name |-> Undef, style |-> Prim("professional")]),
          Obj([name |-> Prim("Ann"), style |-> Prim("casual")])}

Capabilities ==
    {<<"tool", createUser>>, <<"tool", createRandomUser>>,
     <<"resource", users>>, <<"resource", userDetails>>,
     <<"prompt", generateFakeUser>>}

\* parseInt(uri.pathname.split("/")[1]) for the URIs of ParamsOf
uriUserId(uri) == IF uri = Prim("users://1/profile") THEN 1 ELSE 7

NewReq(cap, name, params) ==
    [cap |-> cap, name |-> name, params |-> params, pc |-> "called",
     hres |-> NoVal,        \* what the wrapped handler returned or threw
     status |-> "pending",  \* "returned" or "threw" once the guard has finished
     outcome |-> NoVal,     \* the payload returned or the error thrown to the caller
     rows |-> <<>>,         \* positions in auditLog of the rows this invocation appended
     lost |-> 0,            \* audit writes of this invocation that the store rejected
     ran |-> 0,             \* times the wrapped handler was invoked
     attempts |-> 0,        \* record-creation attempts made by the handler
     errors |-> <<>>,       \* the error codes of the attempts that failed, in order
     writes |-> 0]          \* rows this invocation added to the user-record store

Pc(r, at) == r \in 1..Len(reqs) /\ reqs[r].pc = at
IsCap(r, cap) == reqs[r].cap = cap

\* The guard's audit write: the store, the invocation's bookkeeping, and
\* where the invocation goes next (onRaise when logAudit raised).
Audited(r, la, next, onRaise) ==
    /\ auditLog' = la.log
    /\ reqs' = [reqs EXCEPT ![r] =
           [(IF la.raised THEN onRaise ELSE next) EXCEPT
               !.rows = IF Len(la.log) > Len(auditLog)
                        THEN Append(reqs[r].rows, Len(la.log)) ELSE @,
               !.lost = IF Len(la.log) > Len(auditLog) THEN @ ELSE @ + 1]]

Finish(q, status, outcome) ==
    [q EXCEPT !.pc = "done", !.status = status, !.outcome = outcome]

auditStoreError == Err("P1001", "audit store unreachable")

\* main(): resolve the AuthContext once, then connect (or exit on failure).
main ==
    /\ phase = "boot"
    /\ \/ /\ currentAuthContext' = NoAuth       \* no MCP_ACCESS_TOKEN
          /\ phase' = "serving"
       \/ /\ currentAuthContext' \in StartupContexts  \* validateToken returned
          /\ phase' = "serving"
       \/ /\ currentAuthContext' = currentAuthContext   \* validateToken threw
          /\ phase' = "exited"
    /\ UNCHANGED <<authVars, mcpUsers, auditLog, reqs, answer>>

\* The dispatch layer calls a wrapped handler.
Call ==
    /\ phase = "serving"
    /\ Len(reqs) < MaxReqs
    /\ \E c \in Capabilities : \E params \in ParamsOf(c[1], c[2]) :
           reqs' = Append(reqs, NewReq(c[1], c[2], params))
    /\ UNCHANGED <<authVars, phase, currentAuthContext, mcpUsers, auditLog, answer>>

(***************************************************************************)
(* authenticatedTool                                                       *)
(***************************************************************************)
toolAction(name) == Dotted(<<"tool">>, name)

\* A bug: the anonymous denial is written to the audit trail.
logFailedAction_Audits(action, reason) ==
    Append(auditLog, auditRow(NoAuth, action, FALSE, Options(Undef, Prim(reason), Undef)))

\* logFailedAction only writes to the console: the audit store is as it was.
logFailedAction(action, reason) == auditLog

\* A bug: the permission check's answer is ignored.
authenticatedTool_check_NoPermissionCheck(r) ==
    /\ Pc(r, "called") /\ IsCap(r, "tool")
    /\ IF ~currentAuthContext.present
       THEN /\ auditLog' = logFailedAction(toolAction(reqs[r].name), "No authentication context")
            /\ reqs' = [reqs EXCEPT ![r] = Finish(@, "returned",
                   Val("text", "Authentication required. Please login first.", ""))]
       ELSE /\ auditLog' = auditLog
            /\ reqs' = [reqs EXCEPT ![r].pc = "run"]
    /\ UNCHANGED <<authVars, phase, currentAuthContext, mcpUsers, answer>>

\* A guard that reads the identity's grants from the store at every call.
authenticatedTool_check_ReloadsGrants(r) ==
    /\ Pc(r, "called") /\ IsCap(r, "tool")
    /\ IF ~currentAuthContext.present
       THEN /\ auditLog' = logFailedAction(toolAction(reqs[r].name), "No authentication context")
            /\ reqs' = [reqs EXCEPT ![r] = Finish(@, "returned",
                   Val("text", "Authentication required. Please login first.", ""))]
       ELSE /\ auditLog' = auditLog
            /\ reqs' = [reqs EXCEPT ![r].pc =
                   LET stored == {permissionTable[up.permissionId].name :
                                     up \in {x \in BagToSet(userPermissionTable) :
                                                 x.userId = currentAuthContext.user}}
                   IN  IF canExecuteTool(AuthContext(currentAuthContext.user, stored),
                                         reqs[r].name)
                       THEN "run" ELSE "denied"]
    /\ UNCHANGED <<authVars, phase, currentAuthContext, mcpUsers, answer>>

\* Lines 300-330 up to the denial's audit write: authentication, then permission.
authenticatedTool_check(r) ==
    /\ Pc(r, "called") /\ IsCap(r, "tool")
    /\ IF ~currentAuthContext.present
       THEN /\ auditLog' = logFailedAction(toolAction(reqs[r].name), "No authentication context")
            /\ reqs' = [reqs EXCEPT ![r] = Finish(@, "returned",
                   Val("text", "Authentication required. Please login first.", ""))]
       ELSE /\ auditLog' = auditLog
            /\ reqs' = [reqs EXCEPT ![r].pc =
                   IF canExecuteTool(currentAuthContext, reqs[r].name)
                   THEN "run" ELSE "denied"]
    /\ UNCHANGED <<authVars, phase, currentAuthContext, mcpUsers, answer>>

toolDenied(name) ==
    Val("text", "Permission denied. You don't have access to tool: ", name[1])

\* A bug: the denial is returned without being audited.
authenticatedTool_deny_Silent(r) ==
    /\ Pc(r, "denied") /\ IsCap(r, "tool")
    /\ reqs' = [reqs EXCEPT ![r] = Finish(@, "returned", toolDenied(reqs[r].name))]
    /\ UNCHANGED <<authVars, phase, currentAuthContext, mcpUsers, auditLog, answer>>

authenticatedTool_deny(r) ==
    /\ Pc(r, "denied") /\ IsCap(r, "tool")
    /\ \E storeOk \in BOOLEAN :
         LET la == logAudit(currentAuthContext, toolAction(reqs[r].name), FALSE,
                            Options(Undef, Prim("Permission denied"), Undef), storeOk)
         IN  Audited(r, la,
                     Finish(reqs[r], "returned", toolDenied(reqs[r].name)),
                     Finish(reqs[r], "threw", auditStoreError))
    /\ UNCHANGED <<authVars, phase, currentAuthContext, mcpUsers, answer>>

\* One prisma.mcpUser.create by a handler, with the handler's bookkeeping.
Attempt(q, res) ==
    [q EXCEPT !.attempts = @ + 1, !.writes = IF res.ok THEN @ + 1 ELSE @,
              !.errors = IF res.ok THEN @ ELSE Append(@, res.err.kind)]

created(text, rows) == Val("text", text, ToString(rows[Len(rows)].id))

\* The create-user handler: a duplicate email (P2002) is answered with a
\* text payload, any other error is rethrown.
createUserHandler(r) ==
    /\ Pc(r, "run") /\ IsCap(r, "tool") /\ reqs[r].name = createUser
    /\ \E dbOk \in BOOLEAN :
         LET params == reqs[r].params
             res == mcpUserCreate(params.v.email.v, dbOk)
             q == [Attempt(reqs[r], res) EXCEPT !.ran = @ + 1]
         IN  /\ mcpUsers' = res.rows
             /\ reqs' = [reqs EXCEPT ![r] =
                    IF res.ok
                    THEN [q EXCEPT !.pc = "logOk",
                                   !.hres = created("User created successfully", res.rows)]
                    ELSE IF res.err.kind = "P2002"
                    THEN [q EXCEPT !.pc = "logOk",
                                   !.hres = Val("text", "Email already exists! Please use a different email.",
                                                params.v.email.v)]
                    ELSE [q EXCEPT !.pc = "logErr", !.hres = res.err]]
    /\ UNCHANGED <<authVars, phase, currentAuthContext, auditLog, answer>>

\* A handler that tries again after any error of the first attempt.
createRandomUserHandler_RetriesAll(r) ==
    /\ Pc(r, "run") /\ IsCap(r, "tool") /\ reqs[r].name = createRandomUser
    /\ \E email \in Emails, dbOk \in BOOLEAN :
         LET res == mcpUserCreate(email, dbOk)
             q == [Attempt(reqs[r], res) EXCEPT !.ran = @ + 1]
         IN  /\ mcpUsers' = res.rows
             /\ reqs' = [reqs EXCEPT ![r] =
                    IF res.ok
                    THEN [q EXCEPT !.pc = "logOk",
                                   !.hres = created("Random user created successfully", res.rows)]
                    ELSE [q EXCEPT !.pc = "retry"]]
    /\ UNCHANGED <<authVars, phase, currentAuthContext, auditLog, answer>>

\* The create-random-user handler's first attempt, with a generated email.
createRandomUserHandler(r) ==
    /\ Pc(r, "run") /\ IsCap(r, "tool") /\ reqs[r].name = createRandomUser
    /\ \E email \in Emails, dbOk \in BOOLEAN :
         LET res == mcpUserCreate(email, dbOk)
             q == [Attempt(reqs[r], res) EXCEPT !.ran = @ + 1]
         IN  /\ mcpUsers' = res.rows
             /\ reqs' = [reqs EXCEPT ![r] =
                    IF res.ok
                    THEN [q EXCEPT !.pc = "logOk",
                                   !.hres = created("Random user created successfully", res.rows)]
                    ELSE IF res.err.kind = "P2002"
                    THEN [q EXCEPT !.pc = "retry"]
                    ELSE [q EXCEPT !.pc = "logErr", !.hres = res.err]]
    /\ UNCHANGED <<authVars, phase, currentAuthContext, auditLog, answer>>

\* Its catch block: one more attempt with newly generated data; whatever
\* this attempt throws leaves the handler.
createRandomUserHandler_retry(r) ==
    /\ Pc(r, "retry") /\ IsCap(r, "tool") /\ reqs[r].name = createRandomUser
    /\ \E email \in Emails, dbOk \in BOOLEAN :
         LET res == mcpUserCreate(email, dbOk)
             q == Attempt(reqs[r], res)
         IN  /\ mcpUsers' = res.rows
             /\ reqs' = [reqs EXCEPT ![r] =
                    IF res.ok
                    THEN [q EXCEPT !.pc = "logOk",
                                   !.hres = created("Random user created successfully", res.rows)]
                    ELSE [q EXCEPT !.pc = "logErr", !.hres = res.err]]
    /\ UNCHANGED <<authVars, phase, currentAuthContext, auditLog, answer>>

\* A bug: the success row is written without the call's parameters.
authenticatedTool_logOk_NoMetadata(r) ==
    /\ Pc(r, "logOk") /\ IsCap(r, "tool")
    /\ \E storeOk \in BOOLEAN :
         LET la == logAudit(currentAuthContext, toolAction(reqs[r].name), TRUE,
                            Options(Undef, Undef, Undef), storeOk)
         IN  Audited(r, la,
                     Finish(reqs[r], "returned", reqs[r].hres),
                     [reqs[r] EXCEPT !.pc = "logErr", !.hres = auditStoreError])
    /\ UNCHANGED <<authVars, phase, currentAuthContext, mcpUsers, answer>>

\* Lines 336-341: the handler returned; audit the success and return its result.
\* The write is inside the try block: had logAudit raised, the catch block
\* would take over with that error.
authenticatedTool_logOk(r) ==
    /\ Pc(r, "logOk") /\ IsCap(r, "tool")
    /\ \E storeOk \in BOOLEAN :
         LET la == logAudit(currentAuthContext, toolAction(reqs[r].name), TRUE,
                            Options(Undef, Undef, reqs[r].params), storeOk)
         IN  Audited(r, la,
                     Finish(reqs[r], "returned", reqs[r].hres),
                     [reqs[r] EXCEPT !.pc = "logErr", !.hres = auditStoreError])
    /\ UNCHANGED <<authVars, phase, currentAuthContext, mcpUsers, answer>>

\* A bug: the error is audited and then reported as a normal return.
authenticatedTool_logErr_Swallows(r) ==
    /\ Pc(r, "logErr") /\ IsCap(r, "tool")
    /\ \E storeOk \in BOOLEAN :
         LET la == logAudit(currentAuthContext, toolAction(reqs[r].name), FALSE,
                            Options(Undef, Prim(reqs[r].hres.detail), reqs[r].params), storeOk)
         IN  Audited(r, la,
                     Finish(reqs[r], "returned", reqs[r].hres),
                     Finish(reqs[r], "threw", auditStoreError))
    /\ UNCHANGED <<authVars, phase, currentAuthContext, mcpUsers, answer>>

\* Lines 342-350: the handler threw; audit the failure and rethrow.
authenticatedTool_logErr(r) ==
    /\ Pc(r, "logErr") /\ IsCap(r, "tool")
    /\ \E storeOk \in BOOLEAN :
         LET la == logAudit(currentAuthContext, toolAction(reqs[r].name), FALSE,
                            Options(Undef, Prim(reqs[r].hres.detail), reqs[r].params), storeOk)
         IN  Audited(r, la,
                     Finish(reqs[r], "threw", reqs[r].hres),
                     Finish(reqs[r], "threw", auditStoreError))
    /\ UNCHANGED <<authVars, phase, currentAuthContext, mcpUsers, answer>>

(***************************************************************************)
(* authenticatedResource                                                   *)
(***************************************************************************)
resourceAction(name) == Dotted(Dotted(<<"resource">>, name), <<"read">>)

\* Lines 361-401 up to the denial's audit write.
authenticatedResource_check(r) ==
    /\ Pc(r, "called") /\ IsCap(r, "resource")
    /\ reqs' = [reqs EXCEPT ![r] =
           IF ~currentAuthContext.present
           THEN Finish(@, "returned", Val("json", "Authentication required", reqs[r].params.v))
           ELSE IF canAccessResource(currentAuthContext, reqs[r].name)
           THEN [@ EXCEPT !.pc = "run"]
           ELSE [@ EXCEPT !.pc = "denied"]]
    /\ UNCHANGED <<authVars, phase, currentAuthContext, mcpUsers, auditLog, answer>>

authenticatedResource_deny(r) ==
    /\ Pc(r, "denied") /\ IsCap(r, "resource")
    /\ \E storeOk \in BOOLEAN :
         LET la == logAudit(currentAuthContext, resourceAction(reqs[r].name), FALSE,
                            Options(reqs[r].params, Prim("Permission denied"), Undef), storeOk)
         IN  Audited(r, la,
                     Finish(reqs[r], "returned",
                            Val("json", "Permission denied", reqs[r].params.v)),
                     Finish(reqs[r], "threw", auditStoreError))
    /\ UNCHANGED <<authVars, phase, currentAuthContext, mcpUsers, answer>>

\* The users handler: prisma.mcpUser.findMany, newest first.
usersHandler(r) ==
    /\ Pc(r, "run") /\ IsCap(r, "resource") /\ reqs[r].name = users
    /\ \E dbOk \in BOOLEAN :
         LET newestFirst == [i \in 1..Len(mcpUsers) |-> mcpUsers[Len(mcpUsers) + 1 - i]]
             q == [reqs[r] EXCEPT !.ran = @ + 1]
         IN  reqs' = [reqs EXCEPT ![r] =
                 IF dbOk
                 THEN [q EXCEPT !.pc = "logOk",
                                !.hres = Val("json", "users", ToString(newestFirst))]
                 ELSE [q EXCEPT !.pc = "logErr",
                                !.hres = Err("P1001", "database unreachable")]]
    /\ UNCHANGED <<authVars, phase, currentAuthContext, mcpUsers, auditLog, answer>>

\* The user-details handler: prisma.mcpUser.findUnique by the id in the URI.
userDetailsHandler(r) ==
    /\ Pc(r, "run") /\ IsCap(r, "resource") /\ reqs[r].name = userDetails
    /\ \E dbOk \in BOOLEAN :
         LET userId == uriUserId(reqs[r].params)
             found == {i \in 1..Len(mcpUsers) : mcpUsers[i].id = userId}
             q == [reqs[r] EXCEPT !.ran = @ + 1]
         IN  reqs' = [reqs EXCEPT ![r] =
                 IF ~dbOk
                 THEN [q EXCEPT !.pc = "logErr",
                                !.hres = Err("P1001", "database unreachable")]
                 ELSE IF found = {}
                 THEN [q EXCEPT !.pc = "logOk",
                                !.hres = Val("json", "User not found", reqs[r].params.v)]
                 ELSE [q EXCEPT !.pc = "logOk",
                                !.hres = Val("json", "user",
                                             ToString(mcpUsers[CHOOSE i \in found : TRUE]))]]
    /\ UNCHANGED <<authVars, phase, currentAuthContext, mcpUsers, auditLog, answer>>

\* Lines 407-417.
authenticatedResource_logOk(r) ==
    /\ Pc(r, "logOk") /\ IsCap(r, "resource")
    /\ \E storeOk \in BOOLEAN :
         LET la == logAudit(currentAuthContext, resourceAction(reqs[r].name), TRUE,
                            Options(reqs[r].params, Undef, Undef), storeOk)
         IN  Audited(r, la,
                     Finish(reqs[r], "returned", reqs[r].hres),
                     [reqs[r] EXCEPT !.pc = "logErr", !.hres = auditStoreError])
    /\ UNCHANGED <<authVars, phase, currentAuthContext, mcpUsers, answer>>

\* Lines 418-431.
authenticatedResource_logErr(r) ==
    /\ Pc(r, "logErr") /\ IsCap(r, "resource")
    /\ \E storeOk \in BOOLEAN :
         LET la == logAudit(currentAuthContext, resourceAction(reqs[r].name), FALSE,
                            Options(reqs[r].params, Prim(reqs[r].hres.detail), Undef), storeOk)
         IN  Audited(r, la,
                     Finish(reqs[r], "threw", reqs[r].hres),
                     Finish(reqs[r], "threw", auditStoreError))
    /\ UNCHANGED <<authVars, phase, currentAuthContext, mcpUsers, answer>>

(***************************************************************************)
(* The generate-fake-user prompt                                           *)
(***************************************************************************)
promptAction == Dotted(<<"prompt">>, generateFakeUser)

\* Lines 666-702 up to the denial's audit write.
prompt_check(r) ==
    /\ Pc(r, "called") /\ IsCap(r, "prompt")
    /\ reqs' = [reqs EXCEPT ![r] =
           IF ~currentAuthContext.present
           THEN Finish(@, "returned",
                       Val("messages", "Authentication required to use this prompt.", ""))
           ELSE IF canUsePrompt(currentAuthContext, generateFakeUser)
           THEN [@ EXCEPT !.pc = "logOk"]
           ELSE [@ EXCEPT !.pc = "denied"]]
    /\ UNCHANGED <<authVars, phase, currentAuthContext, mcpUsers, auditLog, answer>>

prompt_deny(r) ==
    /\ Pc(r, "denied") /\ IsCap(r, "prompt")
    /\ \E storeOk \in BOOLEAN :
         LET la == logAudit(currentAuthContext, promptAction, FALSE,
                            Options(Undef, Prim("Permission denied"), Undef), storeOk)
         IN  Audited(r, la,
                     Finish(reqs[r], "returned",
                            Val("messages", "Permission denied. You don't have access to this prompt.", "")),
                     Finish(reqs[r], "threw", auditStoreError))
    /\ UNCHANGED <<authVars, phase, currentAuthContext, mcpUsers, answer>>

\* Lines 704-706: the usage is audited with success = true as soon as the
\* permission check has passed.
prompt_logOk(r) ==
    /\ Pc(r, "logOk") /\ IsCap(r, "prompt")
    /\ \E storeOk \in BOOLEAN :
         LET la == logAudit(currentAuthContext, promptAction, TRUE,
                            Options(Undef, Undef, reqs[r].params), storeOk)
         IN  Audited(r, la,
                     [reqs[r] EXCEPT !.pc = "build"],
                     Finish(reqs[r], "threw", auditStoreError))
    /\ UNCHANGED <<authVars, phase, currentAuthContext, mcpUsers, answer>>

\* Lines 708-739: after the awaited audit write the prompt text is built and
\* returned.
prompt_build(r) ==
    /\ Pc(r, "build") /\ IsCap(r, "prompt")
    /\ LET name == reqs[r].params.v.name
           basePrompt == IF truthy(name) THEN "Generate a fake user profile for someone named"
                         ELSE "Generate a completely random fake user profile"
       IN  reqs' = [reqs EXCEPT ![r] =
               Finish([@ EXCEPT !.ran = @ + 1], "returned",
                      Val("messages", basePrompt, reqs[r].params.v.style.v))]
    /\ UNCHANGED <<authVars, phase, currentAuthContext, mcpUsers, auditLog, answer>>

(***************************************************************************)
(* The authenticated server                                                *)
(***************************************************************************)
NoAnswer == [op |-> "none", arg |-> <<>>, value |-> FALSE]

\* No validation has been made, the identity stores are empty.
AuthIdle ==
    /\ userTable = <<>>
    /\ sessionTable = <<>>
    /\ permissionTable = <<>>
    /\ userPermissionTable = EmptyBag
    /\ vals = <<>>
    /\ now = 0
    /\ input = Undef

Init ==
    /\ phase = "boot"
    /\ currentAuthContext = NoAuth
    /\ mcpUsers = <<>>
    /\ auditLog = <<>>
    /\ reqs = <<>>
    /\ answer = NoAnswer
    /\ AuthIdle

Step(r) ==
    \/ authenticatedTool_check(r)
    \/ authenticatedTool_deny(r)
    \/ createUserHandler(r)
    \/ createRandomUserHandler(r)
    \/ createRandomUserHandler_retry(r)
    \/ authenticatedTool_logOk(r)
    \/ authenticatedTool_logErr(r)
    \/ authenticatedResource_check(r)
    \/ authenticatedResource_deny(r)
    \/ usersHandler(r)
    \/ userDetailsHandler(r)
    \/ authenticatedResource_logOk(r)
    \/ authenticatedResource_logErr(r)
    \/ prompt_check(r)
    \/ prompt_deny(r)
    \/ prompt_logOk(r)
    \/ prompt_build(r)

Next ==
    \/ main
    \/ Call
    \/ \E r \in 1..MaxReqs : Step(r)

Spec == Init /\ [][Next]_vars

(***************************************************************************)
(* The permission resolver on its own: one query of one of its functions   *)
(* against an arbitrary granted set.                                       *)
(***************************************************************************)
Alphabet == {"tools", "resources", "create-user", Dot, Star}

KnownNames ==
    defaultPermissions
        \cup {Dotted(<<k>>, <<Star>>) : k \in {"tools", "resources", "prompts"}}
        \cup UNION {{Dotted(<<"resources">>, n),
                     Dotted(Dotted(<<"resources">>, n), <<"read">>),
                     Dotted(Dotted(<<"resources">>, n), <<Star>>),
                     Dotted(Dotted(Dotted(<<"resources">>, n), <<"read">>), <<Star>>),
                     Dotted(Dotted(<<"tools">>, n), <<"read">>)} : n \in {users, userDetails}}
        \cup {Dotted(Dotted(<<"tools">>, createUser), <<Star>>)}

Names == SeqsUpTo(Alphabet, MaxNameLen) \cup KnownNames

ShortNames ==
    {createUser, createRandomUser, users, userDetails, generateFakeUser}
        \cup SeqsUpTo(Alphabet, 1)

GrantSets ==
    {{}} \cup {{g} : g \in Names} \cup {{g, h} : g \in KnownNames, h \in KnownNames}

Answer(op, arg, value) == [op |-> op, arg |-> arg, value |-> value]

InitPerm ==
    /\ phase = "boot"
    /\ currentAuthContext \in {AuthContext("u1", ps) : ps \in GrantSets}
    /\ mcpUsers = <<>>
    /\ auditLog = <<>>
    /\ reqs = <<>>
    /\ answer = NoAnswer
    /\ AuthIdle

Unasked ==
    /\ answer = NoAnswer
    /\ UNCHANGED <<authVars, phase, currentAuthContext, mcpUsers, auditLog, reqs>>

QueryHasPermission ==
    /\ Unasked
    /\ \E n \in Names :
         answer' = Answer("hasPermission", n, hasPermission(currentAuthContext, n))

QueryCanExecuteTool ==
    /\ Unasked
    /\ \E n \in ShortNames :
         answer' = Answer("canExecuteTool", n, canExecuteTool(currentAuthContext, n))

QueryCanAccessResource ==
    /\ Unasked
    /\ \E n \in ShortNames :
         answer' = Answer("canAccessResource", n, canAccessResource(currentAuthContext, n))

QueryCanUsePrompt ==
    /\ Unasked
    /\ \E n \in ShortNames :
         answer' = Answer("canUsePrompt", n, canUsePrompt(currentAuthContext, n))

NextPerm ==
    \/ QueryHasPermission
    \/ QueryCanExecuteTool
    \/ QueryCanAccessResource
    \/ QueryCanUsePrompt

SpecPerm == InitPerm /\ [][NextPerm]_vars

(***************************************************************************)
(* Properties of the permission resolver (checked under SpecPerm)          *)
(***************************************************************************)
toolsStar == Dotted(<<"tools">>, <<Star>>)

\* The text before the first "." of s is exactly the token k.
FirstSegmentIs(s, k) == Len(s) >= 1 /\ s[1] = k /\ (Len(s) = 1 \/ s[2] = Dot)

\* s reads k.<x> for some text x.
HasForm(s, k) == Len(s) >= 2 /\ s[1] = k /\ s[2] = Dot

\* C8: with the granted set {tools.*}, hasPermission answers true for every
\* requested name tools.<x> and false for every requested name whose first
\* segment is not tools.
C8_ToolsWildcard ==
    (answer.op = "hasPermission" /\ currentAuthContext.permissions = {toolsStar})
        => /\ HasForm(answer.arg, "tools") => answer.value
           /\ ~FirstSegmentIs(answer.arg, "tools") => ~answer.value

C8_Witness ==
    /\ answer.op = "hasPermission"
    /\ currentAuthContext.permissions = {toolsStar}
    /\ answer.arg = Dotted(<<"tools">>, createUser)
    /\ answer.value

\* A granted name ending in ".*"
IsWildcard(g) == Len(g) >= 2 /\ g[Len(g) - 1] = Dot /\ g[Len(g)] = Star

\* C9: with a granted set of one non-wildcard name N, hasPermission answers
\* true for N and false for every other requested name, siblings under the
\* same prefix included.
C9_ExactGrantOnly ==
    (answer.op = "hasPermission" /\ Cardinality(currentAuthContext.permissions) = 1)
        => LET N == CHOOSE g \in currentAuthContext.permissions : TRUE
           IN  ~IsWildcard(N) => (answer.value <=> answer.arg = N)

C9_Witness ==
    /\ answer.op = "hasPermission"
    /\ currentAuthContext.permissions = {Dotted(<<"tools">>, createUser)}
    /\ answer.arg = Dotted(<<"tools">>, createRandomUser)
    /\ ~answer.value

\* p is name, or name continues with a "." right after p.
BoundaryPrefix(p, name) ==
    \/ p = name
    \/ /\ Len(p) < Len(name)
       /\ SubSeq(name, 1, Len(p)) = p
       /\ name[Len(p) + 1] = Dot

\* The grant g covers the requested name: the name itself, or a wildcard
\* whose stem ends at a segment boundary of the name.
Covers(g, name) ==
    \/ g = name
    \/ IsWildcard(g) /\ BoundaryPrefix(SubSeq(g, 1, Len(g) - 2), name)

\* C10: canAccessResource(ctx, n) is true exactly when some grant covers
\* resources.<n>.read or resources.<n>: either exact name alone suffices, and
\* without an exact or matching wildcard grant the answer is false.
C10_ResourceEitherName ==
    answer.op = "canAccessResource"
        => LET withRead == <<"resources", Dot>> \o answer.arg \o <<Dot, "read">>
               withoutRead == <<"resources", Dot>> \o answer.arg
           IN  answer.value <=>
                   \E g \in currentAuthContext.permissions :
                       Covers(g, withRead) \/ Covers(g, withoutRead)

C10_Witness ==
    /\ answer.op = "canAccessResource"
    /\ answer.arg = users
    /\ currentAuthContext.permissions = {Dotted(<<"resources">>, users)}
    /\ answer.value

(***************************************************************************)
(* Properties of the guards (checked under Spec)                           *)
(***************************************************************************)
Reqs == 1..Len(reqs)
Done(r) == reqs[r].pc = "done"
IsError(v) == v.kind \in {"P1001", "P2002"}

\* The permission the guard of r's capability asks for is granted.
Granted(r) ==
    IF reqs[r].cap = "tool" THEN canExecuteTool(currentAuthContext, reqs[r].name)
    ELSE IF reqs[r].cap = "resource" THEN canAccessResource(currentAuthContext, reqs[r].name)
    ELSE canUsePrompt(currentAuthContext, reqs[r].name)

\* The audit rows appended by invocation r.
RowsOf(r) == [i \in 1..Len(reqs[r].rows) |-> auditLog[reqs[r].rows[i]]]

\* C1: the wrapped handler of a guarded tool or resource has run for a
\* request only if an AuthContext was present and the permission check for
\* that request's capability answered true.
C1_HandlerOnlyIfAuthorised ==
    \A r \in Reqs :
        (reqs[r].cap \in {"tool", "resource"}
            /\ (reqs[r].ran > 0 \/ reqs[r].attempts > 0
                \/ reqs[r].pc \in {"run", "retry", "logOk", "logErr"}))
            => currentAuthContext.present /\ Granted(r)

C1_Witness ==
    /\ \E r \in Reqs : reqs[r].cap = "tool" /\ reqs[r].ran > 0 /\ reqs[r].writes > 0
    /\ \E r \in Reqs : reqs[r].cap = "resource" /\ reqs[r].ran > 0

authenticationRequired(r) ==
    IF reqs[r].cap = "tool"
    THEN Val("text", "Authentication required. Please login first.", "")
    ELSE IF reqs[r].cap = "resource"
    THEN Val("json", "Authentication required", reqs[r].params.v)
    ELSE Val("messages", "Authentication required to use this prompt.", "")

\* C2: with no AuthContext, a call of any guard (tool, resource, prompt)
\* returns the authentication-required payload, does not run the wrapped
\* handler and appends no audit row: the audit log stays as it was.
C2_AnonymousDeniedUnaudited ==
    ~currentAuthContext.present
        => /\ auditLog = <<>>
           /\ \A r \in Reqs :
                 /\ reqs[r].rows = <<>> /\ reqs[r].lost = 0
                 /\ reqs[r].ran = 0 /\ reqs[r].attempts = 0
                 /\ reqs[r].pc \in {"called", "done"}
                 /\ Done(r) => /\ reqs[r].status = "returned"
                               /\ reqs[r].outcome = authenticationRequired(r)

C2_Witness ==
    /\ ~currentAuthContext.present
    /\ \E r \in Reqs : reqs[r].cap = "tool" /\ Done(r)
    /\ \E r \in Reqs : reqs[r].cap \in {"resource", "prompt"} /\ Done(r)

\* A finished tool invocation that the permission check turned down.
ToolDenied(r) ==
    /\ reqs[r].cap = "tool" /\ Done(r)
    /\ currentAuthContext.present /\ ~Granted(r)

\* What the denial of tool invocation r leaves behind, apart from the
\* number of audit rows: the row's contents, the payload, the untouched store.
DenialShape(r) ==
    /\ \A i \in 1..Len(reqs[r].rows) :
          /\ RowsOf(r)[i].action = <<"tool", Dot>> \o reqs[r].name
          /\ RowsOf(r)[i].success = FALSE
          /\ RowsOf(r)[i].errorMessage = Prim("Permission denied")
    /\ reqs[r].status = "returned"
    /\ reqs[r].outcome.detail = "Permission denied. You don't have access to tool: "
    /\ reqs[r].outcome.arg = reqs[r].name[1]
    /\ reqs[r].ran = 0 /\ reqs[r].attempts = 0 /\ reqs[r].writes = 0

\* C3 as stated: a denied tool call appends exactly one audit row with action
\* tool.<name>, success = false, errorMessage "Permission denied", returns
\* the permission-denied payload and leaves the user-record store alone.
C3_AsStated ==
    \A r \in Reqs : ToolDenied(r) => Len(reqs[r].rows) = 1 /\ DenialShape(r)

\* C3 amended: a denied tool call makes exactly one audit write with action
\* tool.<name>, success = false, errorMessage "Permission denied"; the write
\* appends exactly one row when the audit store accepts it and none when the
\* store rejects it; either way the call returns the permission-denied
\* payload and leaves the user-record store alone.
C3_DeniedAuditedBestEffort ==
    \A r \in Reqs :
        ToolDenied(r) =>
            /\ Len(reqs[r].rows) + reqs[r].lost = 1
            /\ DenialShape(r)

C3_Witness ==
    \E r \in Reqs : ToolDenied(r) /\ Len(reqs[r].rows) = 1 /\ mcpUsers # <<>>

\* A finished tool invocation of an authorised caller whose handler returned.
ToolReturned(r) ==
    /\ reqs[r].cap = "tool" /\ Done(r)
    /\ currentAuthContext.present /\ Granted(r)
    /\ reqs[r].ran > 0 /\ ~IsError(reqs[r].hres)

\* The call's parameters without their function-valued entries.
WithoutFunctions(params) ==
    Obj([k \in {k \in DOMAIN params.v : params.v[k].t # "function"} |-> params.v[k]])

\* What a successful tool invocation r leaves behind, apart from the number
\* of audit rows.
SuccessShape(r) ==
    /\ reqs[r].status = "returned"
    /\ reqs[r].outcome = reqs[r].hres
    /\ \A i \in 1..Len(reqs[r].rows) :
          /\ RowsOf(r)[i].action = <<"tool", Dot>> \o reqs[r].name
          /\ RowsOf(r)[i].success = TRUE
          /\ RowsOf(r)[i].userId = currentAuthContext.user
          /\ RowsOf(r)[i].metadata = WithoutFunctions(reqs[r].params)

\* C4 as stated: when the handler returns normally the guard returns its
\* result unchanged and appends exactly one audit row with action
\* tool.<name>, success = true, the AuthContext's identity and the sanitized
\* parameters as metadata.
C4_AsStated ==
    \A r \in Reqs : ToolReturned(r) => Len(reqs[r].rows) = 1 /\ SuccessShape(r)

\* C4 amended: when the handler returns normally the guard returns its result
\* unchanged and makes exactly one audit write (action tool.<name>,
\* success = true, the AuthContext's identity, the sanitized parameters as
\* metadata), which appends exactly one row when the audit store accepts it
\* and none when the store rejects it.
C4_SuccessAuditedBestEffort ==
    \A r \in Reqs :
        ToolReturned(r) =>
            /\ Len(reqs[r].rows) + reqs[r].lost = 1
            /\ SuccessShape(r)

C4_Witness ==
    \E r \in Reqs :
        /\ ToolReturned(r) /\ Len(reqs[r].rows) = 1
        /\ reqs[r].name = createRandomUser /\ reqs[r].writes = 1
        /\ currentAuthContext.user = "u2"

\* A finished tool or resource invocation of an authorised caller whose
\* handler threw.
HandlerThrew(r) ==
    /\ reqs[r].cap \in {"tool", "resource"} /\ Done(r)
    /\ currentAuthContext.present /\ Granted(r)
    /\ reqs[r].ran > 0 /\ IsError(reqs[r].hres)

FailureShape(r) ==
    /\ reqs[r].status = "threw"
    /\ reqs[r].outcome = reqs[r].hres
    /\ \A i \in 1..Len(reqs[r].rows) :
          /\ RowsOf(r)[i].success = FALSE
          /\ RowsOf(r)[i].errorMessage = Prim(reqs[r].hres.detail)

\* C5 as stated: when the handler of a tool or resource throws, the guard
\* appends exactly one audit row with success = false and the error's
\* message, then rethrows the same error.
C5_AsStated ==
    \A r \in Reqs : HandlerThrew(r) => Len(reqs[r].rows) = 1 /\ FailureShape(r)

\* C5 amended: when the handler of a tool or resource throws, the guard makes
\* exactly one audit write with success = false and the error's message,
\* which appends exactly one row when the audit store accepts it and none
\* when the store rejects it, then rethrows the same error; the exception is
\* never turned into a normal return.
C5_FailureAuditedBestEffort ==
    \A r \in Reqs :
        HandlerThrew(r) =>
            /\ Len(reqs[r].rows) + reqs[r].lost = 1
            /\ FailureShape(r)

C5_Witness ==
    /\ \E r \in Reqs : HandlerThrew(r) /\ reqs[r].cap = "tool" /\ Len(reqs[r].rows) = 1
    /\ \E r \in Reqs : HandlerThrew(r) /\ reqs[r].cap = "resource" /\ Len(reqs[r].rows) = 1

\* C6: a failure of the wrapped business operation, a duplicate email during
\* create-user included, is audited as a failure: every audit row of a tool
\* invocation whose record creation failed has success = false and carries
\* an error message.
C6_OperationFailureAuditedAsFailure ==
    \A r \in Reqs :
        (reqs[r].cap = "tool" /\ Done(r) /\ reqs[r].attempts > 0 /\ reqs[r].writes = 0)
            => \A i \in 1..Len(reqs[r].rows) :
                   /\ RowsOf(r)[i].success = FALSE
                   /\ RowsOf(r)[i].errorMessage # Undef

\* What the caller of a finished invocation gets when every audit write succeeds.
Expected(r) ==
    IF ~currentAuthContext.present
    THEN [status |-> "returned", kind |-> authenticationRequired(r).kind,
          detail |-> authenticationRequired(r).detail]
    ELSE IF ~Granted(r)
    THEN [status |-> "returned",
          kind |-> IF reqs[r].cap = "tool" THEN "text"
                   ELSE IF reqs[r].cap = "resource" THEN "json" ELSE "messages",
          detail |-> IF reqs[r].cap = "tool"
                     THEN "Permission denied. You don't have access to tool: "
                     ELSE IF reqs[r].cap = "resource" THEN "Permission denied"
                     ELSE "Permission denied. You don't have access to this prompt."]
    ELSE IF reqs[r].cap = "prompt"
    THEN [status |-> "returned", kind |-> "messages",
          detail |-> IF reqs[r].params.v.name = Undef
                     THEN "Generate a completely random fake user profile"
                     ELSE "Generate a fake user profile for someone named"]
    ELSE [status |-> IF IsError(reqs[r].hres) THEN "threw" ELSE "returned",
          kind |-> reqs[r].hres.kind, detail |-> reqs[r].hres.detail]

\* C7: logAudit never raises, whatever the audit store does; a guarded call
\* whose audit write failed still returns the handler's result or the denial
\* payload, or rethrows the handler's own error, as it would have done had
\* the write succeeded.
C7_AuditFailureNeverChangesOutcome ==
    \A r \in Reqs :
        Done(r) =>
            /\ reqs[r].status = Expected(r).status
            /\ reqs[r].outcome.kind = Expected(r).kind
            /\ reqs[r].outcome.detail = Expected(r).detail
            /\ reqs[r].outcome # auditStoreError

C7_Witness ==
    /\ \E r \in Reqs : Done(r) /\ reqs[r].lost > 0 /\ reqs[r].status = "returned"
                        /\ reqs[r].ran > 0 /\ reqs[r].outcome = reqs[r].hres
    /\ \E r \in Reqs : Done(r) /\ reqs[r].lost > 0 /\ reqs[r].status = "threw"
                        /\ reqs[r].outcome = reqs[r].hres

(***************************************************************************)
(* The identity provider                                                   *)
(***************************************************************************)
\* The session assertions presented: two JWTs of one provider session of one
\* provider user, one JWT of another user's session, and a string that is no JWT.
Jwts == {"jwt-A", "jwt-A-refreshed", "jwt-B", "not-a-jwt"}

\* authResult.session of a JWT the provider accepts
providerSession(jwt) ==
    IF jwt = "jwt-B"
    THEN [user_id |-> "stytch-user-B", session_id |-> "stytch-session-B"]
    ELSE [user_id |-> "stytch-user-A", session_id |-> "stytch-session-A"]

\* The reasons stytch.sessions.authenticate may give for rejecting a JWT:
\* a session can expire or be revoked at any time, a malformed JWT is never accepted.
rejections(jwt) ==
    IF jwt = "not-a-jwt" THEN {"JWT could not be parsed"}
    ELSE {"Session expired", "Session revoked"}

accepted(jwt) == jwt # "not-a-jwt"

\* authResult.session.expires_at as a time; 0 stands for an omitted value.
ProviderExpiries == {0, 1}

\* stytch.users.get: the first email of the profile, "" when it has none.
profileEmail(stytchUserId) == IF stytchUserId = "stytch-user-A" THEN "a@x" ELSE ""

(***************************************************************************)
(* The identity stores                                                     *)
(***************************************************************************)
dbDown == Err("P1001", "database unreachable")
uniqueViolation(field) == Err("P2002", field)
notFound == Err("P2025", "Record to update not found")

NoRow == 0
Rows(table) == {i \in 1..Len(table) : table[i].live}

\* prisma.user.findUnique({ where: { stytchUserId } }): the row's position, or NoRow
userFindUnique(stytchUserId) ==
    IF \E i \in Rows(userTable) : userTable[i].stytchUserId = stytchUserId
    THEN CHOOSE i \in Rows(userTable) : userTable[i].stytchUserId = stytchUserId
    ELSE NoRow

userIdAt(i) == IF i = 1 THEN "u1" ELSE IF i = 2 THEN "u2" ELSE "u3"

\* prisma.user.create; stytchUserId is a unique key (findUnique looks rows up by it).
userCreate(stytchUserId, email, dbOk) ==
    IF ~dbOk THEN [ok |-> FALSE, err |-> dbDown, rows |-> userTable]
    ELSE IF userFindUnique(stytchUserId) # NoRow
    THEN [ok |-> FALSE, err |-> uniqueViolation("stytchUserId"), rows |-> userTable]
    ELSE [ok |-> TRUE, err |-> NoVal,
          rows |-> Append(userTable, [id |-> userIdAt(Len(userTable) + 1), live |-> TRUE,
                                      stytchUserId |-> stytchUserId, email |-> email])]

\* prisma.permission.findUnique({ where: { name } })
permissionFindUnique(name) ==
    IF \E i \in Rows(permissionTable) : permissionTable[i].name = name
    THEN CHOOSE i \in Rows(permissionTable) : permissionTable[i].name = name
    ELSE NoRow

\* prisma.permission.create; name is a unique key.
permissionCreate(name, dbOk) ==
    IF ~dbOk THEN [ok |-> FALSE, err |-> dbDown, rows |-> permissionTable]
    ELSE IF permissionFindUnique(name) # NoRow
    THEN [ok |-> FALSE, err |-> uniqueViolation("name"), rows |-> permissionTable]
    ELSE [ok |-> TRUE, err |-> NoVal,
          rows |-> Append(permissionTable,
                          [id |-> Len(permissionTable) + 1, live |-> TRUE, name |-> name])]

\* prisma.userPermission.create
userPermissionCreate(userId, permissionId, grantedBy, dbOk) ==
    IF ~dbOk THEN [ok |-> FALSE, err |-> dbDown, rows |-> userPermissionTable]
    ELSE [ok |-> TRUE, err |-> NoVal,
          rows |-> userPermissionTable (+)
                   SetToBag({[userId |-> userId, permissionId |-> permissionId,
                              grantedBy |-> grantedBy]})]

\* prisma.session.findUnique({ where: { stytchSessionId } })
sessionFindUnique(stytchSessionId) ==
    IF \E i \in Rows(sessionTable) : sessionTable[i].stytchSessionId = stytchSessionId
    THEN CHOOSE i \in Rows(sessionTable) : sessionTable[i].stytchSessionId = stytchSessionId
    ELSE NoRow

\* The values a new Session row may get for lastUsedAt, which the data of
\* prisma.session.create leaves to the table: the time of the insert, or none (0).
lastUsedAtDefaults == {0, now}

\* prisma.session.create; stytchSessionId is a unique key.
sessionCreate(userId, stytchSessionId, accessToken, expiresAt, lastUsedAt, dbOk) ==
    IF ~dbOk THEN [ok |-> FALSE, err |-> dbDown, rows |-> sessionTable]
    ELSE IF sessionFindUnique(stytchSessionId) # NoRow
    THEN [ok |-> FALSE, err |-> uniqueViolation("stytchSessionId"), rows |-> sessionTable]
    ELSE [ok |-> TRUE, err |-> NoVal,
          rows |-> Append(sessionTable,
                          [id |-> Len(sessionTable) + 1, live |-> TRUE, userId |-> userId,
                           stytchSessionId |-> stytchSessionId, accessToken |-> accessToken,
                           expiresAt |-> expiresAt, lastUsedAt |-> lastUsedAt])]

\* A touch that also extends the session's expiry.
sessionUpdate_Sliding(id, lastUsedAt, dbOk) ==
    IF ~dbOk THEN [ok |-> FALSE, err |-> dbDown, rows |-> sessionTable]
    ELSE IF id \notin Rows(sessionTable)
    THEN [ok |-> FALSE, err |-> notFound, rows |-> sessionTable]
    ELSE [ok |-> TRUE, err |-> NoVal,
          rows |-> [sessionTable EXCEPT ![id].lastUsedAt = lastUsedAt,
                                        ![id].expiresAt = lastUsedAt + 1]]

\* prisma.session.update({ where: { id }, data: { lastUsedAt } })
sessionUpdate_Epoch(id, lastUsedAt, dbOk) ==
    IF ~dbOk THEN [ok |-> FALSE, err |-> dbDown, rows |-> sessionTable]
    ELSE IF id \notin Rows(sessionTable)
    THEN [ok |-> FALSE, err |-> notFound, rows |-> sessionTable]
    ELSE [ok |-> TRUE, err |-> NoVal,
          rows |-> [sessionTable EXCEPT ![id].lastUsedAt = 0]]

sessionUpdate(id, lastUsedAt, dbOk) ==
    IF ~dbOk THEN [ok |-> FALSE, err |-> dbDown, rows |-> sessionTable]
    ELSE IF id \notin Rows(sessionTable)
    THEN [ok |-> FALSE, err |-> notFound, rows |-> sessionTable]
    ELSE [ok |-> TRUE, err |-> NoVal,
          rows |-> [sessionTable EXCEPT ![id].lastUsedAt = lastUsedAt]]

\* What a deleted Session row leaves at its position.
Gone(i) ==
    [id |-> i, live |-> FALSE, userId |-> "", stytchSessionId |-> "", accessToken |-> "",
     expiresAt |-> 0, lastUsedAt |-> 0]

\* A sweep that also deletes the sessions expiring at this very instant.
sessionDeleteMany_UpToNow(lt) ==
    [i \in 1..Len(sessionTable) |->
        IF sessionTable[i].live /\ sessionTable[i].expiresAt <= lt
        THEN Gone(i) ELSE sessionTable[i]]

\* prisma.session.deleteMany({ where: { expiresAt: { lt } } })
sessionDeleteMany(lt) ==
    [i \in 1..Len(sessionTable) |->
        IF sessionTable[i].live /\ sessionTable[i].expiresAt < lt
        THEN Gone(i) ELSE sessionTable[i]]

\* prisma.userPermission.findMany({ where: { userId }, include: { permission } })
\* followed by .map(up => up.permission): the granted permissions' names.
userPermissionNames(userId) ==
    {permissionTable[up.permissionId].name :
        up \in {r \in BagToSet(userPermissionTable) : r.userId = userId}}

(***************************************************************************)
(* validateToken, one step per await                                       *)
(***************************************************************************)
\* Date.now() + 3600000: the lease of a session whose expiry the provider omits
SessionLease == 3600000

\* The permissions grantDefaultPermissions iterates over, in its order.
defaultPermissionList ==
    <<Dotted(<<"tools">>, createRandomUser), Dotted(<<"tools">>, createUser),
      Dotted(<<"resources">>, users), Dotted(<<"resources">>, userDetails),
      Dotted(<<"prompts">>, generateFakeUser)>>

NoContext == [ctx |-> NoAuth, sessionId |-> NoRow, accessToken |-> ""]

\* A call of validateToken(accessToken) at its first await.  cause and found
\* record what the call met.
NewVal(accessToken) ==
    [accessToken |-> accessToken, pc |-> "authenticate",
     stytchUserId |-> "", stytchSessionId |-> "", expires_at |-> 0,
     user |-> NoRow, email |-> "", i |-> 1, permission |-> NoRow,
     expiresAt |-> 0, session |-> NoRow, lastUsedAt |-> 0,
     result |-> NoContext, error |-> NoVal,
     cause |-> "", found |-> "unknown"]

VPc(v, at) == v \in 1..Len(vals) /\ vals[v].pc = at
Finished(v) == vals[v].pc \in {"returned", "threw", "consumed"}

\* What is left of a call whose outcome its caller has taken.
Consumed == [NewVal("") EXCEPT !.pc = "consumed"]

\* catch (error): throw new Error(`Authentication failed: ${error.message}`)
authenticationFailed_NoReason(message) == Val("Error", "Authentication failed: ", "")

authenticationFailed(message) == Val("Error", "Authentication failed: ", message)

\* The call is over: its locals are gone, what it did stays on record.
over(r, pc, result, error, cause) ==
    [NewVal(r.accessToken) EXCEPT !.pc = pc, !.result = result, !.error = error,
                                  !.cause = cause, !.user = r.user, !.found = r.found]

\* A step of the try block throws err.
thrown_Rethrown(r, err) ==
    over(r, "threw", NoContext, Val(err.kind, err.detail, ""), err.kind)

thrown(r, err) ==
    over(r, "threw", NoContext, authenticationFailed(err.detail), err.kind)

\* const expiresAt = new Date(authResult.session.expires_at || Date.now() + 3600000),
\* evaluated as soon as step 2 is over, before the session lookup is awaited.
step3(r) ==
    [r EXCEPT !.pc = "findSession", !.email = "", !.i = 1, !.permission = NoRow,
              !.expiresAt = IF r.expires_at # 0 THEN r.expires_at ELSE now + SessionLease,
              !.expires_at = 0]

guardVars == <<phase, currentAuthContext, mcpUsers, auditLog, reqs, answer, input>>

\* A caller presents an assertion once every earlier call is over and its
\* outcome taken.
validateToken_call ==
    /\ Len(vals) < MaxVals
    /\ \A u \in 1..Len(vals) : Finished(u)
    /\ \E jwt \in Jwts :
          vals' = Append([u \in 1..Len(vals) |-> Consumed], NewVal(jwt))
    /\ UNCHANGED <<guardVars, userTable, sessionTable, permissionTable, userPermissionTable, now>>

\* A caller presents an assertion while earlier calls may still be suspended.
validateToken_callConcurrently ==
    /\ Len(vals) < MaxVals
    /\ \E jwt \in Jwts : vals' = Append(vals, NewVal(jwt))
    /\ UNCHANGED <<guardVars, userTable, sessionTable, permissionTable, userPermissionTable, now>>

\* stytch.sessions.authenticate({ session_jwt })
validateToken_authenticate(v) ==
    /\ VPc(v, "authenticate")
    /\ \/ \E reason \in rejections(vals[v].accessToken) :
            vals' = [vals EXCEPT ![v] = thrown(@, Err("StytchError", reason))]
       \/ /\ accepted(vals[v].accessToken)
          /\ \E exp \in ProviderExpiries :
                vals' = [vals EXCEPT ![v] =
                    [@ EXCEPT !.pc = "findUser",
                              !.stytchUserId = providerSession(vals[v].accessToken).user_id,
                              !.stytchSessionId = providerSession(vals[v].accessToken).session_id,
                              !.expires_at = exp]]
    /\ UNCHANGED <<guardVars, userTable, sessionTable, permissionTable, userPermissionTable, now>>

\* prisma.user.findUnique; if (!user)
validateToken_findUser(v) ==
    /\ VPc(v, "findUser")
    /\ \E dbOk \in BOOLEAN :
        LET u == userFindUnique(vals[v].stytchUserId) IN
        vals' = [vals EXCEPT ![v] =
            IF ~dbOk THEN thrown(@, dbDown)
            ELSE IF u = NoRow THEN [@ EXCEPT !.pc = "getProfile", !.found = "no"]
            ELSE step3([@ EXCEPT !.user = u, !.found = "yes"])]
    /\ UNCHANGED <<guardVars, userTable, sessionTable, permissionTable, userPermissionTable, now>>

\* stytch.users.get({ user_id })
validateToken_getProfile(v) ==
    /\ VPc(v, "getProfile")
    /\ \E ok \in BOOLEAN :
        vals' = [vals EXCEPT ![v] =
            IF ~ok THEN thrown(@, Err("StytchError", "User not found"))
            ELSE [@ EXCEPT !.pc = "createUser", !.email = profileEmail(vals[v].stytchUserId)]]
    /\ UNCHANGED <<guardVars, userTable, sessionTable, permissionTable, userPermissionTable, now>>

\* prisma.user.create
validateToken_createUser(v) ==
    /\ VPc(v, "createUser")
    /\ \E dbOk \in BOOLEAN :
        LET c == userCreate(vals[v].stytchUserId, vals[v].email, dbOk) IN
        /\ userTable' = c.rows
        /\ vals' = [vals EXCEPT ![v] =
              IF ~c.ok THEN thrown(@, c.err)
              ELSE [@ EXCEPT !.pc = "permissionFind", !.user = Len(c.rows), !.i = 1]]
    /\ UNCHANGED <<guardVars, sessionTable, permissionTable, userPermissionTable, now>>

\* grantDefaultPermissions: prisma.permission.findUnique({ where: { name } })
grantDefaultPermissions_find(v) ==
    /\ VPc(v, "permissionFind")
    /\ \E dbOk \in BOOLEAN :
        LET p == permissionFindUnique(defaultPermissionList[vals[v].i]) IN
        vals' = [vals EXCEPT ![v] =
            IF ~dbOk THEN thrown(@, dbDown)
            ELSE IF p = NoRow THEN [@ EXCEPT !.pc = "permissionCreate"]
            ELSE [@ EXCEPT !.pc = "grant", !.permission = p]]
    /\ UNCHANGED <<guardVars, userTable, sessionTable, permissionTable, userPermissionTable, now>>

\* grantDefaultPermissions: if (!permission) prisma.permission.create
grantDefaultPermissions_create(v) ==
    /\ VPc(v, "permissionCreate")
    /\ \E dbOk \in BOOLEAN :
        LET c == permissionCreate(defaultPermissionList[vals[v].i], dbOk) IN
        /\ permissionTable' = c.rows
        /\ vals' = [vals EXCEPT ![v] =
              IF ~c.ok THEN thrown(@, c.err)
              ELSE [@ EXCEPT !.pc = "grant", !.permission = Len(c.rows)]]
    /\ UNCHANGED <<guardVars, userTable, sessionTable, userPermissionTable, now>>

\* grantDefaultPermissions: prisma.userPermission.create, then the next permission
grantDefaultPermissions_grant(v) ==
    /\ VPc(v, "grant")
    /\ \E dbOk \in BOOLEAN :
        LET c == userPermissionCreate(userTable[vals[v].user].id, vals[v].permission,
                                      "system", dbOk) IN
        /\ userPermissionTable' = c.rows
        /\ vals' = [vals EXCEPT ![v] =
              IF ~c.ok THEN thrown(@, c.err)
              ELSE LET g == [@ EXCEPT !.pc = "permissionFind", !.i = @ + 1,
                                      !.permission = NoRow]
                   IN IF g.i > Len(defaultPermissionList) THEN step3(g) ELSE g]
    /\ UNCHANGED <<guardVars, userTable, sessionTable, permissionTable, now>>

\* prisma.session.findUnique; if (session) the update's lastUsedAt: new Date()
\* is evaluated before the update is awaited.
validateToken_findSession(v) ==
    /\ VPc(v, "findSession")
    /\ \E dbOk \in BOOLEAN :
        LET s == sessionFindUnique(vals[v].stytchSessionId) IN
        vals' = [vals EXCEPT ![v] =
            IF ~dbOk THEN thrown(@, dbDown)
            ELSE IF s = NoRow THEN [@ EXCEPT !.pc = "createSession"]
            ELSE [@ EXCEPT !.pc = "updateSession", !.session = s, !.lastUsedAt = now,
                           !.expiresAt = 0]]
    /\ UNCHANGED <<guardVars, userTable, sessionTable, permissionTable, userPermissionTable, now>>

\* prisma.session.update({ where: { id: session.id }, data: { lastUsedAt } })
validateToken_updateSession(v) ==
    /\ VPc(v, "updateSession")
    /\ \E dbOk \in BOOLEAN :
        LET c == sessionUpdate(vals[v].session, vals[v].lastUsedAt, dbOk) IN
        /\ sessionTable' = c.rows
        /\ vals' = [vals EXCEPT ![v] =
              IF ~c.ok THEN thrown(@, c.err)
              ELSE [@ EXCEPT !.pc = "loadPermissions", !.lastUsedAt = 0]]
    /\ UNCHANGED <<guardVars, userTable, permissionTable, userPermissionTable, now>>

\* prisma.session.create({ data: { userId, stytchSessionId, accessToken, expiresAt } })
validateToken_createSession(v) ==
    /\ VPc(v, "createSession")
    /\ \E dbOk \in BOOLEAN, lastUsedAt \in lastUsedAtDefaults :
        LET c == sessionCreate(userTable[vals[v].user].id, vals[v].stytchSessionId,
                               vals[v].accessToken, vals[v].expiresAt, lastUsedAt, dbOk) IN
        /\ sessionTable' = c.rows
        /\ vals' = [vals EXCEPT ![v] =
              IF ~c.ok THEN thrown(@, c.err)
              ELSE [@ EXCEPT !.pc = "loadPermissions", !.session = Len(c.rows),
                             !.expiresAt = 0]]
    /\ UNCHANGED <<guardVars, userTable, permissionTable, userPermissionTable, now>>

\* A validator that reports the default grants whatever the store holds.
loadPermissions_Defaults(userId) == defaultPermissions

\* userPermissions.map((up) => up.permission) of the findMany of step 4
loadPermissions_SystemGrantsOnly(userId) ==
    {permissionTable[up.permissionId].name :
        up \in {r \in BagToSet(userPermissionTable) :
                    r.userId = userId /\ r.grantedBy = "system"}}

loadPermissions(userId) == userPermissionNames(userId)

\* prisma.userPermission.findMany, then return { user, permissions, sessionId, accessToken }
validateToken_loadPermissions(v) ==
    /\ VPc(v, "loadPermissions")
    /\ \E dbOk \in BOOLEAN :
        vals' = [vals EXCEPT ![v] =
            IF ~dbOk THEN thrown(@, dbDown)
            ELSE over(@, "returned",
                      [ctx |-> AuthContext(userTable[vals[v].user].id,
                                           loadPermissions(userTable[vals[v].user].id)),
                       sessionId |-> vals[v].session,
                       accessToken |-> vals[v].accessToken],
                      NoVal, "")]
    /\ UNCHANGED <<guardVars, userTable, sessionTable, permissionTable, userPermissionTable, now>>

\* cleanupExpiredSessions: deleteMany({ where: { expiresAt: { lt: new Date() } } })
cleanupExpiredSessions ==
    /\ sessionTable' = sessionDeleteMany(now)
    /\ sessionTable' # sessionTable
    /\ UNCHANGED <<guardVars, userTable, permissionTable, userPermissionTable, vals, now>>

\* Time passes.
Tick ==
    /\ now < MaxTime
    /\ now' = now + 1
    /\ UNCHANGED <<guardVars, userTable, sessionTable, permissionTable, userPermissionTable, vals>>

\* The identities whose grants the administrator edits.
Administered == {1}

\* The administrator's edits fall between two validations, or between the
\* session step of a validation and its load of the grants.
Editable == \A v \in 1..Len(vals) : Finished(v) \/ vals[v].pc = "loadPermissions"

\* An administrator edits the Permission Grant store, which this program only
\* ever inserts into, one edit per tick of the clock: a grant of an existing
\* permission to an existing user ...
adminGrant ==
    /\ Editable
    /\ now < MaxTime
    /\ now' = now + 1
    /\ \E u \in Rows(userTable) \cap Administered, p \in Rows(permissionTable) :
        LET row == [userId |-> userTable[u].id, permissionId |-> p, grantedBy |-> "admin"] IN
        /\ ~\E r \in BagToSet(userPermissionTable) :
                r.userId = row.userId /\ r.permissionId = p
        /\ userPermissionTable' = userPermissionTable (+) SetToBag({row})
    /\ UNCHANGED <<guardVars, userTable, sessionTable, permissionTable, vals>>

\* ... or the removal of a grant.
adminRevoke ==
    /\ Editable
    /\ now < MaxTime
    /\ now' = now + 1
    /\ \E r \in BagToSet(userPermissionTable) :
        /\ \E u \in Rows(userTable) \cap Administered : r.userId = userTable[u].id
        /\ userPermissionTable' = userPermissionTable (-) SetToBag({r})
    /\ UNCHANGED <<guardVars, userTable, sessionTable, permissionTable, vals>>

\* The server has not started; the validator is called on empty stores.
InitAuth ==
    /\ phase = "boot"
    /\ currentAuthContext = NoAuth
    /\ mcpUsers = <<>>
    /\ auditLog = <<>>
    /\ reqs = <<>>
    /\ answer = NoAnswer
    /\ AuthIdle

\* Validations one after the other, while time passes and expired sessions are swept.
NextAuth ==
    \/ validateToken_call
    \/ \E v \in 1..Len(vals) : validateToken_authenticate(v)
    \/ \E v \in 1..Len(vals) : validateToken_findUser(v)
    \/ \E v \in 1..Len(vals) : validateToken_getProfile(v)
    \/ \E v \in 1..Len(vals) : validateToken_createUser(v)
    \/ \E v \in 1..Len(vals) : grantDefaultPermissions_find(v)
    \/ \E v \in 1..Len(vals) : grantDefaultPermissions_create(v)
    \/ \E v \in 1..Len(vals) : grantDefaultPermissions_grant(v)
    \/ \E v \in 1..Len(vals) : validateToken_findSession(v)
    \/ \E v \in 1..Len(vals) : validateToken_updateSession(v)
    \/ \E v \in 1..Len(vals) : validateToken_createSession(v)
    \/ \E v \in 1..Len(vals) : validateToken_loadPermissions(v)
    \/ cleanupExpiredSessions
    \/ Tick

SpecAuth == InitAuth /\ [][NextAuth]_vars

\* The same, while an administrator edits the grants.
NextAuthAdmin ==
    \/ validateToken_call
    \/ \E v \in 1..Len(vals) : validateToken_authenticate(v)
    \/ \E v \in 1..Len(vals) : validateToken_findUser(v)
    \/ \E v \in 1..Len(vals) : validateToken_getProfile(v)
    \/ \E v \in 1..Len(vals) : validateToken_createUser(v)
    \/ \E v \in 1..Len(vals) : grantDefaultPermissions_find(v)
    \/ \E v \in 1..Len(vals) : grantDefaultPermissions_create(v)
    \/ \E v \in 1..Len(vals) : grantDefaultPermissions_grant(v)
    \/ \E v \in 1..Len(vals) : validateToken_findSession(v)
    \/ \E v \in 1..Len(vals) : validateToken_updateSession(v)
    \/ \E v \in 1..Len(vals) : validateToken_createSession(v)
    \/ \E v \in 1..Len(vals) : validateToken_loadPermissions(v)
    \/ adminGrant
    \/ adminRevoke

SpecAuthAdmin == InitAuth /\ [][NextAuthAdmin]_vars

\* Validations interleaved at their awaits.
NextAuthConcurrent ==
    \/ validateToken_callConcurrently
    \/ \E v \in 1..Len(vals) : validateToken_authenticate(v)
    \/ \E v \in 1..Len(vals) : validateToken_findUser(v)
    \/ \E v \in 1..Len(vals) : validateToken_getProfile(v)
    \/ \E v \in 1..Len(vals) : validateToken_createUser(v)
    \/ \E v \in 1..Len(vals) : grantDefaultPermissions_find(v)
    \/ \E v \in 1..Len(vals) : grantDefaultPermissions_create(v)
    \/ \E v \in 1..Len(vals) : grantDefaultPermissions_grant(v)
    \/ \E v \in 1..Len(vals) : validateToken_findSession(v)
    \/ \E v \in 1..Len(vals) : validateToken_updateSession(v)
    \/ \E v \in 1..Len(vals) : validateToken_createSession(v)
    \/ \E v \in 1..Len(vals) : validateToken_loadPermissions(v)

SpecAuthConcurrent == InitAuth /\ [][NextAuthConcurrent]_vars

(***************************************************************************)
(* Properties of the session validator                                     *)
(***************************************************************************)
Vals == 1..Len(vals)
ProviderSessionIds == {providerSession(jwt).session_id : jwt \in {j \in Jwts : accepted(j)}}
SessionsIn(table, sid) ==
    {i \in 1..Len(table) : table[i].live /\ table[i].stytchSessionId = sid}
SessionOf(table, sid) == table[CHOOSE i \in SessionsIn(table, sid) : TRUE]

\* C11: there is never more than one Session row of a provider session id;
\* when a validation has created or touched the Session of its provider
\* session id there is exactly one; and from one validation of that id to the
\* next the row's lastUsedAt never decreases.
C11_OneSessionPerProviderSession ==
    [][/\ \A sid \in ProviderSessionIds : Cardinality(SessionsIn(sessionTable', sid)) <= 1
       /\ \A v \in Vals :
            (vals[v].pc \in {"createSession", "updateSession"}
                /\ vals'[v].pc = "loadPermissions")
            => Cardinality(SessionsIn(sessionTable', vals[v].stytchSessionId)) = 1
       /\ \A sid \in ProviderSessionIds :
            (SessionsIn(sessionTable, sid) # {} /\ SessionsIn(sessionTable', sid) # {})
            => SessionOf(sessionTable', sid).lastUsedAt >= SessionOf(sessionTable, sid).lastUsedAt
      ]_vars

\* A refreshed assertion of a provider session has been validated after the
\* clock moved: the session row made for the first assertion has been touched.
C11_Witness ==
    \E v \in Vals :
        /\ vals[v].pc = "returned"
        /\ vals[v].accessToken = "jwt-A-refreshed"
        /\ Cardinality(SessionsIn(sessionTable, "stytch-session-A")) = 1
        /\ sessionTable[vals[v].result.sessionId].accessToken = "jwt-A"
        /\ sessionTable[vals[v].result.sessionId].lastUsedAt >= 1

GrantsOf(userId) == {r \in BagToSet(userPermissionTable) : r.userId = userId}
GrantedNames(userId) == {permissionTable[r.permissionId].name : r \in GrantsOf(userId)}

\* The identity holds each of the five default grants once, from "system",
\* and no other grant.
DefaultGrantsExactly(userId) ==
    /\ Cardinality(GrantsOf(userId)) = 5
    /\ GrantedNames(userId) = defaultPermissions
    /\ \A r \in GrantsOf(userId) :
          r.grantedBy = "system" /\ CopiesIn(r, userPermissionTable) = 1

\* C12: every identity is unknown when the run starts; once a validation of it
\* has returned, it holds exactly the five default grants, each from "system",
\* and keeps exactly those however often it is validated again.
C12_FirstValidationProvisions ==
    \A v \in Vals :
        vals[v].pc = "returned" => DefaultGrantsExactly(vals[v].result.ctx.user)

StoresUnchanged ==
    UNCHANGED <<userTable, sessionTable, permissionTable, userPermissionTable>>

\* C13: when the provider rejects the assertion, the call throws
\* "Authentication failed: <the provider's reason>" and the four stores are as
\* they were.
C13_RejectionLeavesStoresUnchanged ==
    [][\A v \in Vals :
          (vals[v].pc = "authenticate" /\ vals'[v].pc = "threw")
          => /\ \E reason \in rejections(vals[v].accessToken) :
                   vals'[v].error = Val("Error", "Authentication failed: ", reason)
             /\ vals'[v].result = NoContext
             /\ StoresUnchanged
      ]_vars

\* The provider has rejected an assertion of a session it had accepted
\* before, when the stores held that session's identity.
C13_Witness ==
    \E v \in Vals :
        /\ vals[v].pc = "threw"
        /\ vals[v].found = "unknown"
        /\ vals[v].error = Val("Error", "Authentication failed: ", "Session revoked")
        /\ Len(userTable) = 1
        /\ Len(sessionTable) = 1
        /\ BagCardinality(userPermissionTable) = 5

Running(v) == ~Finished(v)

\* C14: a call in which a step failed ends by throwing an Error whose message
\* is "Authentication failed: " followed by the failure's message, with no
\* AuthContext; it stays thrown; and a call returns an AuthContext only from
\* the last step, with no error.
C14_FailurePropagates ==
    [][\A v \in Vals :
          /\ vals'[v].cause # ""
             => /\ vals'[v].pc = "threw"
                /\ vals'[v].result = NoContext
                /\ vals'[v].error.kind = "Error"
                /\ vals'[v].error.detail = "Authentication failed: "
                /\ vals'[v].error.arg # ""
          /\ vals[v].pc = "threw" => vals'[v].pc \in {"threw", "consumed"}
          /\ (Running(v) /\ vals'[v].pc = "threw") => vals'[v].cause # ""
          /\ vals'[v].pc = "returned"
             => /\ vals[v].pc \in {"loadPermissions", "returned"}
                /\ vals'[v].cause = ""
                /\ vals'[v].error = NoVal
                /\ vals'[v].result.ctx.present
      ]_vars

\* A storage failure has ended a first login after the identity was created.
C14_Witness ==
    \E v \in Vals :
        /\ vals[v].pc = "threw"
        /\ vals[v].cause = "P1001"
        /\ vals[v].found = "no"
        /\ vals[v].user # NoRow
        /\ vals[v].error = authenticationFailed("database unreachable")

\* The call met no failure of the provider or of the database connection.
Undisturbed(v) == vals[v].cause \notin {"StytchError", "P1001"}
ProviderUser(v) == providerSession(vals[v].accessToken).user_id
FirstLogin(v) == vals[v].pc \in {"returned", "threw"} /\ vals[v].found = "no"
IdentitiesOf(stytchUserId) ==
    {i \in Rows(userTable) : userTable[i].stytchUserId = stytchUserId}

\* C15: when two validations of one provider user both found no identity,
\* and neither met a provider or connection failure, both return an
\* AuthContext of the same, single identity.
C15_IdentityCreationIdempotent ==
    \A v, w \in Vals :
        (v # w /\ FirstLogin(v) /\ FirstLogin(w) /\ ProviderUser(v) = ProviderUser(w)
            /\ Undisturbed(v) /\ Undisturbed(w))
        => /\ vals[v].pc = "returned"
           /\ vals[w].pc = "returned"
           /\ vals[v].result.ctx.user = vals[w].result.ctx.user
           /\ Cardinality(IdentitiesOf(ProviderUser(v))) = 1

PermissionsNamed(name) == {i \in Rows(permissionTable) : permissionTable[i].name = name}

\* C16: no two Permission rows share a name, and when the first logins of two
\* different provider users have interleaved, neither meeting a provider or
\* connection failure, both returned and both identities hold exactly the
\* five default grants.
C16_ConcurrentProvisioningCompletes ==
    /\ \A i \in Rows(permissionTable) :
          Cardinality(PermissionsNamed(permissionTable[i].name)) = 1
    /\ \A v, w \in Vals :
        (v # w /\ FirstLogin(v) /\ FirstLogin(w) /\ ProviderUser(v) # ProviderUser(w)
            /\ Undisturbed(v) /\ Undisturbed(w))
        => /\ vals[v].pc = "returned"
           /\ vals[w].pc = "returned"
           /\ DefaultGrantsExactly(vals[v].result.ctx.user)
           /\ DefaultGrantsExactly(vals[w].result.ctx.user)

\* C17: the permission set of a returned AuthContext is the set of
\* permissions granted to its identity in the store when the grants are
\* loaded, whatever was granted or revoked before.
C17_ContextHoldsCurrentGrants ==
    [][\A v \in Vals :
          (vals[v].pc = "loadPermissions" /\ vals'[v].pc = "returned")
          => /\ vals'[v].result.ctx.user = userTable[vals[v].user].id
             /\ vals'[v].result.ctx.permissions = GrantedNames(userTable[vals[v].user].id)
      ]_vars

\* A known identity has been validated after the administrator's edits: the
\* context holds a permission the administrator granted and lacks one that
\* exists in the store.
C17_Witness ==
    \E v \in Vals :
        /\ vals[v].pc = "returned"
        /\ vals[v].found = "yes"
        /\ \E r \in GrantsOf(vals[v].result.ctx.user) :
              /\ r.grantedBy = "admin"
              /\ permissionTable[r.permissionId].name \in vals[v].result.ctx.permissions
        /\ \E i \in Rows(permissionTable) :
              permissionTable[i].name \notin vals[v].result.ctx.permissions

(***************************************************************************)
(* The recorder on nested metadata                                         *)
(***************************************************************************)
Leaves == {Prim("x"), Prim(""), Null, Fn, Undef}
Siblings == {Prim("x"), Fn}
Empty == [key \in {} |-> Undef]

\* Values nested d deep: a value one level less deep under key "a" or in an
\* array, alone or beside a primitive or a function.
RECURSIVE Metadata(_)
Metadata(d) ==
    IF d = 0 THEN Leaves
    ELSE LET inner == Metadata(d - 1) IN
         Leaves \cup {Obj(Empty), Arr(<<>>)}
            \cup {Obj([a |-> x]) : x \in inner}
            \cup {Obj([a |-> x, b |-> s]) : x \in inner, s \in Siblings}
            \cup {Arr(<<x>>) : x \in inner}
            \cup {Arr(<<s, x>>) : x \in inner, s \in Siblings}
            \cup {Arr(<<x, s>>) : x \in inner, s \in Siblings}

\* A guard is about to record an action of an authenticated user with some metadata.
InitSanitize ==
    /\ phase = "serving"
    /\ currentAuthContext = AuthContext("u1", defaultPermissions)
    /\ mcpUsers = <<>>
    /\ auditLog = <<>>
    /\ reqs = <<>>
    /\ answer = NoAnswer
    /\ userTable = <<>>
    /\ sessionTable = <<>>
    /\ permissionTable = <<>>
    /\ userPermissionTable = EmptyBag
    /\ vals = <<>>
    /\ now = 0
    /\ input \in Metadata(MaxDepth)

\* logAudit(authContext, action, success, { metadata })
recordMetadata ==
    /\ auditLog = <<>>
    /\ \E success \in BOOLEAN, storeOk \in BOOLEAN :
          auditLog' = logAudit(currentAuthContext, <<"tool", Dot, "create-user">>, success,
                               Options(Undef, Undef, input), storeOk).log
    /\ auditLog' # auditLog
    /\ UNCHANGED <<authVars, phase, currentAuthContext, mcpUsers, reqs, answer>>

\* The store refuses the write; logAudit returns all the same.
recordMetadata_fails ==
    /\ auditLog = <<>>
    /\ phase = "serving"
    /\ phase' = "audit store down"
    /\ auditLog' = logAudit(currentAuthContext, <<"tool", Dot, "create-user">>, TRUE,
                            Options(Undef, Undef, input), FALSE).log
    /\ UNCHANGED <<authVars, currentAuthContext, mcpUsers, reqs, answer>>

NextSanitize == recordMetadata \/ recordMetadata_fails

SpecSanitize == InitSanitize /\ [][NextSanitize]_vars

RECURSIVE NoFunction(_)
NoFunction(x) ==
    /\ x.t # "function"
    /\ x.t = "array" => \A i \in 1..Len(x.v) : NoFunction(x.v[i])
    /\ x.t = "object" => \A key \in DOMAIN x.v : NoFunction(x.v[key])

IsPrimitive(x) == x.t = "primitive" \/ x = Null

\* stored keeps what given holds under keys: no key whose value was a
\* function, every primitive under its key, and so on inside the arrays and
\* mappings that given holds.
RECURSIVE Kept(_, _)
Kept(given, stored) ==
    IF given.t = "object" THEN
        /\ stored.t = "object"
        /\ \A key \in DOMAIN given.v :
              /\ given.v[key].t = "function" => key \notin DOMAIN stored.v
              /\ IsPrimitive(given.v[key])
                 => key \in DOMAIN stored.v /\ stored.v[key] = given.v[key]
              /\ given.v[key].t \in {"object", "array"}
                 => key \in DOMAIN stored.v /\ Kept(given.v[key], stored.v[key])
    ELSE IF given.t = "array" THEN
        LET left == SelectSeq(given.v, LAMBDA item : item.t \notin {"function", "undefined"}) IN
        /\ stored.t = "array"
        /\ Len(stored.v) = Len(left)
        /\ \A i \in 1..Len(left) : Kept(left[i], stored.v[i])
    ELSE stored = given

\* C18: whatever metadata logAudit is given, the metadata of the row it
\* stores holds no function at any depth, has no key whose value was a
\* function, and has every primitive that stood under a key of a mapping,
\* unchanged under that key.
C18_StoredMetadataSanitized ==
    \A i \in 1..Len(auditLog) :
        /\ NoFunction(auditLog[i].metadata)
        /\ input.t \in {"object", "array"} => Kept(input, auditLog[i].metadata)

\* Metadata with a function, and a nested mapping with a function beside a
\* primitive, has been recorded.
C18_Witness ==
    /\ input = Obj([a |-> Obj([a |-> Fn, b |-> Prim("x")]), b |-> Fn])
    /\ Len(auditLog) = 1
    /\ auditLog[1].metadata = Obj([a |-> Obj([b |-> Prim("x")])])

\* C19: a step changes the audit log only by appending to it: every record
\* is still there afterwards, at its place and with all its fields.
C19_AuditLogAppendOnly ==
    [][/\ Len(auditLog') >= Len(auditLog)
       /\ \A i \in 1..Len(auditLog) : auditLog'[i] = auditLog[i]
      ]_vars

\* Guards have recorded a success and, after it, a failure.
C19_Witness ==
    /\ Len(auditLog) >= 2
    /\ auditLog[1].success
    /\ ~auditLog[Len(auditLog)].success

(***************************************************************************)
(* Reading the audit log                                                   *)
(***************************************************************************)
\* limit: number = 100
DefaultLimit == 100

Min(a, b) == IF a <= b THEN a ELSE b
Range(seq) == {seq[i] : i \in 1..Len(seq)}
Injective(seq) == \A i, j \in 1..Len(seq) : i # j => seq[i] # seq[j]
Take(seq, n) == SubSeq(seq, 1, Min(n, Len(seq)))

\* The rows (by position in the store) a findMany with where, orderBy and
\* take may return: rows of equal timestamp come in any order.
findManyOrdered(owned, orderBy, limit) ==
    {Take(seq, limit) :
        seq \in {s \in SeqsOfLen(owned, Cardinality(owned)) :
                    /\ Injective(s)
                    /\ \A i \in 1..(Len(s) - 1) :
                          IF orderBy = "desc"
                          THEN auditLog[s[i]].timestamp >= auditLog[s[i + 1]].timestamp
                          ELSE auditLog[s[i]].timestamp <= auditLog[s[i + 1]].timestamp}}

\* findMany({ where: { userId }, orderBy: { timestamp: "asc" }, take: limit })
getUserAuditLogs_OldestFirst(userId, limit) ==
    findManyOrdered({i \in 1..Len(auditLog) : auditLog[i].userId = userId},
                    "asc", limit)

\* findMany({ where: { userId }, orderBy: { timestamp: "desc" }, take: limit })
getUserAuditLogs(userId, limit) ==
    findManyOrdered({i \in 1..Len(auditLog) : auditLog[i].userId = userId},
                    "desc", limit)

\* getUserAuditLogs has not been called.
NoRows == Answer("none", <<>>, <<>>)

\* The recorder is about to be used and read.
InitAudit ==
    /\ phase = "serving"
    /\ currentAuthContext = NoAuth
    /\ mcpUsers = <<>>
    /\ auditLog = <<>>
    /\ reqs = <<>>
    /\ answer = NoRows
    /\ AuthIdle

\* logAudit for some identity
recordAction ==
    /\ answer = NoRows
    /\ Len(auditLog) < MaxRows
    /\ \E userId \in UserIds, success \in BOOLEAN :
          auditLog' = logAudit(AuthContext(userId, {}), <<"tool", Dot, "create-user">>,
                               success, Options(Undef, Undef, Undef), TRUE).log
    /\ UNCHANGED <<phase, currentAuthContext, mcpUsers, reqs, answer, userTable, sessionTable,
                   permissionTable, userPermissionTable, vals, now, input>>

\* Time passes between two records.
auditTick ==
    /\ answer = NoRows
    /\ now < MaxTime
    /\ now' = now + 1
    /\ UNCHANGED <<phase, currentAuthContext, mcpUsers, auditLog, reqs, answer, userTable,
                   sessionTable, permissionTable, userPermissionTable, vals, input>>

\* getUserAuditLogs(userId, limit)
queryAuditLogs ==
    /\ answer = NoRows
    /\ \E userId \in UserIds, limit \in 0..MaxRows :
        \E rows \in getUserAuditLogs(userId, limit) :
            answer' = Answer("getUserAuditLogs", <<userId, limit>>, rows)
    /\ UNCHANGED <<authVars, phase, currentAuthContext, mcpUsers, auditLog, reqs>>

\* getUserAuditLogs(userId)
queryAuditLogsDefault ==
    /\ answer = NoRows
    /\ \E userId \in UserIds :
        \E rows \in getUserAuditLogs(userId, DefaultLimit) :
            answer' = Answer("getUserAuditLogs", <<userId, DefaultLimit>>, rows)
    /\ UNCHANGED <<authVars, phase, currentAuthContext, mcpUsers, auditLog, reqs>>

NextAudit == recordAction \/ auditTick \/ queryAuditLogs \/ queryAuditLogsDefault

SpecAudit == InitAudit /\ [][NextAudit]_vars

OwnedBy(userId) == {i \in 1..Len(auditLog) : auditLog[i].userId = userId}

\* C20: the rows getUserAuditLogs(userId, limit) returns are rows of userId,
\* each once, newest first, min(limit, number of userId's rows) of them, none
\* older than a row of userId left out; and the call leaves every store as
\* it was.
C20_NewestOwnedRecords ==
    [][answer' # answer =>
        LET userId == answer'.arg[1]
            limit == answer'.arg[2]
            rows == answer'.value
        IN  /\ Range(rows) \subseteq OwnedBy(userId)
            /\ Injective(rows)
            /\ Len(rows) = Min(limit, Cardinality(OwnedBy(userId)))
            /\ \A i, j \in 1..Len(rows) :
                  i < j => auditLog[rows[i]].timestamp >= auditLog[rows[j]].timestamp
            /\ \A r \in Range(rows), o \in OwnedBy(userId) \ Range(rows) :
                  auditLog[r].timestamp >= auditLog[o].timestamp
            /\ UNCHANGED <<auditLog, mcpUsers, userTable, sessionTable, permissionTable,
                           userPermissionTable>>
      ]_vars

\* The log holds two records of one identity, written at different times,
\* around a record of another; the first identity has been asked for two.
C20_Witness ==
    /\ answer.op = "getUserAuditLogs"
    /\ answer.arg = <<"u1", 2>>
    /\ Cardinality(OwnedBy("u1")) = 2
    /\ Cardinality(OwnedBy("u2")) = 1
    /\ answer.value = <<3, 1>>
    /\ auditLog[3].timestamp > auditLog[1].timestamp

(***************************************************************************)
(* Startup, ordering inside a guard                                        *)
(***************************************************************************)
\* C21: an authentication failure is never fatal to the server process: after
\* a bearer assertion is rejected the process keeps running, so it is never
\* in the state reached by process.exit.
C21_ProcessSurvivesAuthFailure == phase # "exited"

\* The rows of invocation r that report the wrapped operation (not a denial).
OperationRows(r) ==
    {i \in 1..Len(reqs[r].rows) :
        RowsOf(r)[i].errorMessage # Prim("Permission denied")}

\* C22: within one guarded invocation (tool, resource or prompt) the wrapped
\* operation has run only after the permission check passed, and an audit
\* row about the operation is in the store only once the operation has run:
\* the success row is never written before the result has been produced.
C22_CheckThenRunThenAudit ==
    \A r \in Reqs :
        /\ reqs[r].ran > 0 => currentAuthContext.present /\ Granted(r)
        /\ OperationRows(r) # {} => reqs[r].ran > 0

(***************************************************************************)
(* The prefixes the wildcard suffix is appended to (checked under SpecPerm)*)
(***************************************************************************)
\* The wildcard g has a stem strictly shorter than the requested name.
CoversFromAbove(g, name) ==
    \/ g = name
    \/ /\ IsWildcard(g)
       /\ SubSeq(g, 1, Len(g) - 2) # name
       /\ BoundaryPrefix(SubSeq(g, 1, Len(g) - 2), name)

\* C23 as stated: the wildcard suffix is appended only to strictly shorter
\* prefixes of the requested name, so hasPermission is true exactly when the
\* name itself or such a shorter wildcard is granted, and a granted set
\* holding only <name>.* does not grant <name>.
C23_OnlyShorterPrefixes ==
    answer.op = "hasPermission"
        => (answer.value <=>
               \E g \in currentAuthContext.permissions : CoversFromAbove(g, answer.arg))

\* C23 (amended): the wildcard suffix is appended to every prefix of the
\* requested name, the full name included: hasPermission is true exactly
\* when some grant is the name itself or <prefix>.* for a prefix ending at a
\* segment boundary, so a granted set holding only <name>.* grants <name>.
C23_EveryPrefixIncludingFull ==
    answer.op = "hasPermission"
        => /\ answer.value <=>
                  \E g \in currentAuthContext.permissions : Covers(g, answer.arg)
           /\ answer.arg \o <<Dot, Star>> \in currentAuthContext.permissions
                  => answer.value

C23_Witness ==
    /\ answer.op = "hasPermission"
    /\ answer.arg = Dotted(<<"tools">>, createUser)
    /\ currentAuthContext.permissions = {Dotted(Dotted(<<"tools">>, createUser), <<Star>>)}
    /\ answer.value

(***************************************************************************)
(* Monotonicity and namespaces (checked under SpecPerm)                    *)
(***************************************************************************)
Granting(permissions) == AuthContext("u1", permissions)

\* C29: hasPermission is monotone in the granted set: a name granted by G
\* is granted by every G with one more name, a name refused by G is refused
\* by every G with one name fewer, and the empty set grants nothing.
C29_MonotoneInGrants ==
    answer.op = "hasPermission"
        => LET G == currentAuthContext.permissions
           IN  /\ answer.value
                     => \A h \in KnownNames :
                           hasPermission(Granting(G \cup {h}), answer.arg)
               /\ ~answer.value
                     => \A g \in G : ~hasPermission(Granting(G \ {g}), answer.arg)
               /\ G = {} => ~answer.value

C29_Witness ==
    /\ answer.op = "hasPermission"
    /\ currentAuthContext.permissions = {toolsStar, Dotted(<<"resources">>, users)}
    /\ answer.arg = Dotted(<<"tools">>, createUser)
    /\ answer.value

\* The namespace a query asks about: the first segment of the requested name.
Namespace ==
    IF answer.op = "canExecuteTool" THEN <<"tools">>
    ELSE IF answer.op = "canAccessResource" THEN <<"resources">>
    ELSE IF answer.op = "canUsePrompt" THEN <<"prompts">>
    ELSE split(answer.arg)[1]

\* C30: namespaces are isolated: a query is answered true only if some
\* granted name has the queried namespace as its own first segment; with
\* grants under tools only, every resource and prompt query is refused (and
\* likewise for the other namespaces, and for the grants "*" and ".*").
C30_NamespacesIsolated ==
    (answer.op # "none" /\ answer.value)
        => \E g \in currentAuthContext.permissions : split(g)[1] = Namespace

C30_Witness ==
    /\ answer.op = "canAccessResource"
    /\ answer.arg = users
    /\ currentAuthContext.permissions = {toolsStar, Dotted(Dotted(<<"tools">>, users), <<"read">>)}
    /\ ~answer.value

(***************************************************************************)
(* Session expiry (checked under SpecAuth)                                 *)
(***************************************************************************)
LiveSessions(table) == {i \in 1..Len(table) : table[i].live}

\* C24: a step that deletes a Session deletes exactly the Sessions whose
\* expiresAt is strictly earlier than the current time: every Session with
\* expiresAt >= now stays as it was, and Identities, Permissions, Permission
\* Grants and Audit Records are unchanged.  validateToken does not look at a
\* local Session's expiresAt: the lookup and the touch of an existing Session
\* fail only when the store fails.
C24_SweepDeletesExactlyExpired ==
    [][/\ (LiveSessions(sessionTable) \ LiveSessions(sessionTable') # {})
            => /\ Len(sessionTable') = Len(sessionTable)
               /\ \A i \in LiveSessions(sessionTable) :
                     IF sessionTable[i].expiresAt < now
                     THEN ~sessionTable'[i].live
                     ELSE sessionTable'[i] = sessionTable[i]
               /\ UNCHANGED <<userTable, permissionTable, userPermissionTable, auditLog>>
       /\ \A v \in Vals :
             (vals[v].pc \in {"findSession", "updateSession"} /\ vals'[v].pc = "threw")
                => vals'[v].cause \in {dbDown.kind, notFound.kind}
      ]_vars

\* The sweep has deleted one Session and left the other, which has not expired.
C24_Witness ==
    /\ \E i \in 1..Len(sessionTable) : sessionTable[i] = Gone(i)
    /\ \E j \in LiveSessions(sessionTable) : sessionTable[j].expiresAt >= now
    /\ Len(userTable) = 2

\* A Session row without its last-used timestamp.
Untimed(row) == [row EXCEPT !.lastUsedAt = 0]

\* C26: re-validating an existing provider session id changes only that
\* Session's lastUsedAt: as long as the row exists its owner, provider session
\* id, stored bearer token and expiresAt are those written at creation, and
\* the touch leaves every other row and the other stores as they were,
\* whatever expiry the provider reports and whatever token is presented.
C26_TouchChangesOnlyLastUsedAt ==
    [][/\ \A i \in LiveSessions(sessionTable) :
             sessionTable'[i].live => Untimed(sessionTable'[i]) = Untimed(sessionTable[i])
       /\ \A v \in Vals :
             (vals[v].pc = "updateSession" /\ vals'[v].pc = "loadPermissions")
                => /\ Len(sessionTable') = Len(sessionTable)
                   /\ \A i \in 1..Len(sessionTable) :
                         i # vals[v].session => sessionTable'[i] = sessionTable[i]
                   /\ UNCHANGED <<userTable, permissionTable, userPermissionTable>>
      ]_vars

\* A refreshed assertion has touched, after its expiry, the Session made for
\* the first assertion of the provider session.
C26_Witness ==
    \E v \in Vals :
        /\ vals[v].pc = "loadPermissions"
        /\ vals[v].accessToken = "jwt-A-refreshed"
        /\ sessionTable[vals[v].session].live
        /\ sessionTable[vals[v].session].accessToken = "jwt-A"
        /\ sessionTable[vals[v].session].expiresAt = 1
        /\ sessionTable[vals[v].session].lastUsedAt = 2

(***************************************************************************)
(* No rollback (checked under SpecAuth)                                    *)
(***************************************************************************)
IsPrefix(s, t) == Len(s) <= Len(t) /\ SubSeq(t, 1, Len(s)) = s

\* C28: validateToken has no rollback: no step, a failing one included,
\* removes an Identity, a Permission or a Permission Grant that an earlier
\* step inserted; a validation that found the Identity provisions nothing;
\* and a successful validation returns exactly the grants the store holds for
\* the Identity, so an Identity left with partial grants by a failed first
\* validation is returned with only those.
C28_NoRollback ==
    [][/\ IsPrefix(userTable, userTable')
       /\ IsPrefix(permissionTable, permissionTable')
       /\ userPermissionTable \sqsubseteq userPermissionTable'
       /\ \A v \in Vals :
             /\ (vals[v].found = "yes" /\ vals'[v] # vals[v])
                   => UNCHANGED <<userTable, permissionTable, userPermissionTable>>
             /\ (vals[v].pc = "loadPermissions" /\ vals'[v].pc = "returned")
                   => vals'[v].result.ctx.permissions
                          = GrantedNames(userTable[vals[v].user].id)
      ]_vars

\* A validation has returned an Identity it found in the store, with fewer
\* than the five default grants.
C28_Witness ==
    \E v \in Vals :
        /\ vals[v].pc = "returned"
        /\ vals[v].found = "yes"
        /\ vals[v].result.ctx.permissions = GrantedNames(vals[v].result.ctx.user)
        /\ Cardinality(vals[v].result.ctx.permissions) \in 1..4

(***************************************************************************)
(* The retry of create-random-user (checked under Spec)                    *)
(***************************************************************************)
RandomUserCalls ==
    {r \in Reqs : reqs[r].cap = "tool" /\ reqs[r].name = createRandomUser}

\* The attempts of invocation r: at most two, the second only after a
\* duplicate email in the first, and always after one.
NarrowRetry(r) ==
    /\ reqs[r].attempts <= 2
    /\ reqs[r].attempts = 2
          => Len(reqs[r].errors) >= 1 /\ reqs[r].errors[1] = "P2002"
    /\ (reqs[r].attempts = 1 /\ reqs[r].errors = <<"P2002">>) => reqs[r].pc = "retry"
    /\ (reqs[r].errors # <<>> /\ reqs[r].errors[1] # "P2002")
          => /\ reqs[r].attempts = 1
             /\ reqs[r].pc \in {"logErr", "done"}
             /\ reqs[r].hres.kind = reqs[r].errors[1]

\* The handler of r gave up: its last attempt failed and was not retried.
GaveUp(r) ==
    /\ Done(r)
    /\ reqs[r].errors # <<>>
    /\ Len(reqs[r].errors) = reqs[r].attempts

\* r ended by rethrowing the error of its last attempt, and each of its
\* audit rows reports that error with success = false.
Rethrown(r) ==
    /\ reqs[r].status = "threw"
    /\ reqs[r].outcome = reqs[r].hres
    /\ reqs[r].outcome.kind = reqs[r].errors[Len(reqs[r].errors)]
    /\ \A i \in 1..Len(reqs[r].rows) :
          /\ RowsOf(r)[i].success = FALSE
          /\ RowsOf(r)[i].action = toolAction(createRandomUser)
          /\ RowsOf(r)[i].errorMessage = Prim(reqs[r].hres.detail)

\* C25 as stated: create-random-user makes at most two creation attempts,
\* the second only after a duplicate email; when the last attempt fails the
\* guard appends one audit row with success = false and rethrows.
C25_AsStated ==
    \A r \in RandomUserCalls :
        /\ NarrowRetry(r)
        /\ GaveUp(r) => Rethrown(r) /\ Len(reqs[r].rows) = 1

\* C25 (amended): create-random-user makes at most two creation attempts,
\* the second only after a duplicate email in the first and always then; any
\* other first error leaves the handler at once; when the last attempt fails
\* the guard makes one audit write with success = false, which appends one
\* row when the audit store accepts it and none when it rejects it, and
\* rethrows the error.
C25_NarrowRetryBestEffortAudit ==
    \A r \in RandomUserCalls :
        /\ NarrowRetry(r)
        /\ GaveUp(r) => Rethrown(r) /\ Len(reqs[r].rows) + reqs[r].lost = 1

\* Both attempts hit an existing email; the failure is on the audit trail.
C25_Witness ==
    \E r \in RandomUserCalls :
        /\ GaveUp(r)
        /\ reqs[r].errors = <<"P2002", "P2002">>
        /\ Len(reqs[r].rows) = 1
        /\ reqs[r].status = "threw"

(***************************************************************************)
(* The server on a provisioned store whose grants are edited while it      *)
(* serves                                                                  *)
(***************************************************************************)
\* The stores some time after the first validation of jwt-A: one Identity
\* with its Session, holding the five default grants or, the administrator
\* having removed them, none.
Provisioned ==
    /\ userTable = <<[id |-> userIdAt(1), live |-> TRUE,
                      stytchUserId |-> providerSession("jwt-A").user_id,
                      email |-> profileEmail(providerSession("jwt-A").user_id)]>>
    /\ permissionTable =
          [i \in 1..Len(defaultPermissionList) |->
              [id |-> i, live |-> TRUE, name |-> defaultPermissionList[i]]]
    /\ userPermissionTable \in
          {EmptyBag,
           SetToBag({[userId |-> userIdAt(1), permissionId |-> i, grantedBy |-> "system"] :
                        i \in 1..Len(defaultPermissionList)})}
    /\ sessionTable = <<[id |-> 1, live |-> TRUE, userId |-> userIdAt(1),
                         stytchSessionId |-> providerSession("jwt-A").session_id,
                         accessToken |-> "jwt-A", expiresAt |-> SessionLease,
                         lastUsedAt |-> 0]>>

InitServing ==
    /\ phase = "boot"
    /\ currentAuthContext = NoAuth
    /\ mcpUsers = <<>>
    /\ auditLog = <<>>
    /\ reqs = <<>>
    /\ answer = NoAnswer
    /\ Provisioned
    /\ vals = <<>>
    /\ now = 0
    /\ input = Undef

\* main(), where the AuthContext validateToken returns is the one its last
\* step loads from the store.
mainOnStore ==
    /\ main
    /\ currentAuthContext'.present
          => currentAuthContext' = AuthContext(userTable[1].id, loadPermissions(userTable[1].id))

\* The server is connected and has not been called yet.
Quiet == phase = "serving" /\ reqs = <<>>

\* The grant the administrator edits while the server runs.
EditedGrant(row) == permissionTable[row.permissionId].name = Dotted(<<"tools">>, createUser)

\* The grants are edited in the store after startup, before the first call.
grantAfterStartup ==
    /\ Quiet
    /\ adminGrant
    /\ \A row \in BagToSet(userPermissionTable') \ BagToSet(userPermissionTable) :
          EditedGrant(row)

revokeAfterStartup ==
    /\ Quiet
    /\ adminRevoke
    /\ \A row \in BagToSet(userPermissionTable) \ BagToSet(userPermissionTable') :
          EditedGrant(row)

NextServing ==
    \/ mainOnStore
    \/ Call
    \/ \E r \in 1..MaxReqs : Step(r)
    \/ grantAfterStartup
    \/ revokeAfterStartup

SpecServing == InitServing /\ [][NextServing]_vars

\* C27: once the server serves, currentAuthContext is never reassigned; every
\* guard decides by the identity and grants it holds, whatever the store has
\* become, and every Audit Record written names that identity.
C27_ContextFixedAtStartup ==
    [][/\ phase = "serving" => currentAuthContext' = currentAuthContext
       /\ \A r \in Reqs :
             (reqs[r].pc = "called" /\ reqs'[r].pc # "called")
                => reqs'[r].pc =
                      IF ~currentAuthContext.present THEN "done"
                      ELSE IF ~Granted(r) THEN "denied"
                      ELSE IF reqs[r].cap = "prompt" THEN "logOk" ELSE "run"
       /\ Len(auditLog') > Len(auditLog)
             => auditLog'[Len(auditLog')].userId = currentAuthContext.user
      ]_vars

\* The grant of tools.create-user was revoked in the store at the first tick
\* of the clock; an invocation audited after that created a user.
C27_Witness ==
    /\ Dotted(<<"tools">>, createUser) \notin GrantedNames(currentAuthContext.user)
    /\ \E r \in Reqs :
          /\ Done(r) /\ reqs[r].cap = "tool" /\ reqs[r].name = createUser
          /\ reqs[r].writes = 1
          /\ Len(reqs[r].rows) = 1
          /\ RowsOf(r)[1].success
          /\ RowsOf(r)[1].timestamp >= 1

====
